---------------------------- MODULE Spec2Model ----------------------------
(***************************************************************************)
(* A model of the fact-extraction engine of edinet-value-screener          *)
(* (scripts/xbrl_parser.py) and of the filing selector                     *)
(* (scripts/processor.py).                                                 *)
(*                                                                         *)
(* Conventions.                                                            *)
(*   - A Python string on which the code does character work (strip,       *)
(*     replace, startswith, endswith, lower, int, float) is a sequence of  *)
(*     one-character strings: <<"J", "P", "Y">> is "JPY".  A name that is  *)
(*     only compared whole may appear as one element of such a sequence.   *)
(*   - A Python value that may be None is a sequence of length 0 (None)    *)
(*     or 1 (the value): None, Some(v), Get(o).                            *)
(*   - A call that ends in an exception is a result record whose outcome   *)
(*     field names the exception instead of "returned".                    *)
(***************************************************************************)
EXTENDS Integers, Sequences, FiniteSets, TLC

VARIABLES
    mode,      \* which operation this behaviour exercises
    pc,        \* position of the operation: "call" before it ran, "done" after
    input,     \* the arguments of the operation
    output     \* what the operation produced (NoOutput before it ran)

vars == <<mode, pc, input, output>>

None == <<>>
Some(v) == <<v>>
Get(o) == o[1]
IsNone(o) == o = <<>>
NoOutput == [outcome |-> "pending"]

(***************************************************************************)
(* Bounds of the model.                                                    *)
(***************************************************************************)
\* longest text over Chars given to _parse_int_loose exhaustively
MaxTextLen == 4
\* most fact elements in a document given to the concept resolver
MaxElems == 2

(***************************************************************************)
(* Character-level helpers (Python str methods).                           *)
(***************************************************************************)
Digits == <<"0", "1", "2", "3", "4", "5", "6", "7", "8", "9">>

IsDigit(c) == \E i \in 1..10 : Digits[i] = c

DigitVal(c) == (CHOOSE i \in 1..10 : Digits[i] = c) - 1

\* str.strip() with no argument removes leading and trailing whitespace
IsSpace(c) == c \in {" ", "\t", "\n", "\r"}

RECURSIVE LStrip(_)
LStrip(s) == IF s # <<>> /\ IsSpace(Head(s)) THEN LStrip(Tail(s)) ELSE s

RECURSIVE RStrip(_)
RStrip(s) ==
    IF s # <<>> /\ IsSpace(s[Len(s)]) THEN RStrip(SubSeq(s, 1, Len(s) - 1)) ELSE s

Strip(s) == RStrip(LStrip(s))

\* s.replace(c, "")
RemoveChar(s, c) == SelectSeq(s, LAMBDA x : x # c)

StartsWith(s, p) == Len(s) >= Len(p) /\ SubSeq(s, 1, Len(p)) = p

EndsWith(s, p) == Len(s) >= Len(p) /\ SubSeq(s, Len(s) - Len(p) + 1, Len(s)) = p

\* str.lower() on the letters the model's strings are written with
LowerChar(c) ==
    CASE c = "J" -> "j" [] c = "P" -> "p" [] c = "Y" -> "y"
      [] c = "U" -> "u" [] c = "S" -> "s" [] c = "D" -> "d"
      [] c = "I" -> "i" [] c = "N" -> "n" [] c = "F" -> "f"
      [] c = "A" -> "a" [] c = "T" -> "t"
      [] OTHER -> c

Lower(s) == [i \in 1..Len(s) |-> LowerChar(s[i])]

AllDigits(s) == \A i \in 1..Len(s) : IsDigit(s[i])

\* value of a string of decimal digits (0 for the empty string)
RECURSIVE DigitsValue(_)
DigitsValue(s) ==
    IF s = <<>> THEN 0
    ELSE 10 * DigitsValue(SubSeq(s, 1, Len(s) - 1)) + DigitVal(s[Len(s)])

IsSign(c) == c \in {"+", "-"}

\* a numeric literal without its optional sign, and the sign's factor
Unsigned(s) == IF s # <<>> /\ IsSign(Head(s)) THEN Tail(s) ELSE s

SignOf(s) == IF s # <<>> /\ Head(s) = "-" THEN -1 ELSE 1

(***************************************************************************)
(* Python's int(str) and float(str), on strings without '_', exponents or  *)
(* non-ASCII digits.  Each yields [ok, ...]; ok = FALSE is ValueError.     *)
(***************************************************************************)
PyInt(s) ==
    LET t == Strip(s)
        body == Unsigned(t)
    IN  IF body # <<>> /\ AllDigits(body)
        THEN [ok |-> TRUE, val |-> SignOf(t) * DigitsValue(body)]
        ELSE [ok |-> FALSE, val |-> 0]

\* position of the first "." of s, or 0
DotPos(s) == IF \E i \in 1..Len(s) : s[i] = "."
             THEN CHOOSE i \in 1..Len(s) : s[i] = "." /\ \A j \in 1..(i - 1) : s[j] # "."
             ELSE 0

\* float(s): kind is "finite" (trunc holds the value truncated toward zero,
\* which is all int() keeps), "inf", "nan" or "error" (ValueError)
PyFloat(s) ==
    LET t == Strip(s)
        body == Unsigned(t)
        low == Lower(body)
        dot == DotPos(body)
        ipart == IF dot = 0 THEN body ELSE SubSeq(body, 1, dot - 1)
        fpart == IF dot = 0 THEN <<>> ELSE SubSeq(body, dot + 1, Len(body))
    IN  IF low \in {<<"i", "n", "f">>, <<"i", "n", "f", "i", "n", "i", "t", "y">>}
        THEN [kind |-> "inf", trunc |-> 0]
        ELSE IF low = <<"n", "a", "n">>
        THEN [kind |-> "nan", trunc |-> 0]
        ELSE IF AllDigits(ipart) /\ AllDigits(fpart) /\ Len(ipart) + Len(fpart) > 0
        THEN [kind |-> "finite", trunc |-> SignOf(t) * DigitsValue(ipart)]
        ELSE [kind |-> "error", trunc |-> 0]

\* int(float(s)): int() of an infinity raises OverflowError, of a NaN ValueError
IntOfFloat(s) ==
    LET f == PyFloat(s)
    IN  CASE f.kind = "finite" -> [outcome |-> "returned", val |-> f.trunc]
          [] f.kind = "inf" -> [outcome |-> "OverflowError", val |-> 0]
          [] OTHER -> [outcome |-> "ValueError", val |-> 0]

\* a variant of ParenToMinus that drops the parentheses and forgets the sign
ParenToMinus_unsigned(s) ==
    IF StartsWith(s, <<"(">>) /\ EndsWith(s, <<")">>)
    THEN SubSeq(s, 2, Len(s) - 1)
    ELSE s

\* "(123)" -> "-123"
ParenToMinus(s) ==
    IF StartsWith(s, <<"(">>) /\ EndsWith(s, <<")">>)
    THEN <<"-">> \o SubSeq(s, 2, Len(s) - 1)
    ELSE s

(***************************************************************************)
(* _parse_int_loose(txt): txt is None or Some(string).                     *)
(***************************************************************************)
_parse_int_loose(txt) ==
    IF IsNone(txt) THEN [outcome |-> "ValueError", val |-> 0]
    ELSE LET s == ParenToMinus(RemoveChar(Strip(Get(txt)), ","))
             i == PyInt(s)
         IN  IF i.ok THEN [outcome |-> "returned", val |-> i.val]
             ELSE IntOfFloat(s)

(***************************************************************************)
(* The parsed document (lxml root).                                        *)
(*   nsmap    : prefix -> namespace URI, as declared on the root element;  *)
(*              xbrli and xbrldi are bound, as the xpath calls of          *)
(*              _build_contexts and _unit_is_jpy need                      *)
(*   dei      : the jpdei_cor:EDINETCodeDEI element: "absent", "notext"    *)
(*              (element without text) or "present"                        *)
(*   ctxDecls : the xbrli:context elements in document order               *)
(*   units    : the xbrli:unit elements in document order                  *)
(*   elems    : the fact elements in document order, each with its local   *)
(*              name, namespace URI, contextRef, unitRef and text          *)
(*   std      : the texts of the AccountingStandardsDEI elements           *)
(***************************************************************************)

\* dict.get(key) on a function used as a dict
DictGet(d, k) == IF k \in DOMAIN d THEN Some(d[k]) ELSE None

\* "not x" for an optional string: None or empty.  Falsy is for a string held
\* as a TLA+ string, FalsyChars for one held as a character sequence
Falsy(o) == IsNone(o) \/ Get(o) = ""

FalsyChars(o) == IsNone(o) \/ Get(o) = <<>>

\* the first child element named `name` of a period, as None or Some(text)
ChildText(period, name) == period[name]

AxisSuffix == <<"ConsolidatedOrNonConsolidatedAxis">>
NonConsolidatedSuffix == <<"Non", "ConsolidatedMember">>

\* a variant that looks at every member on the consolidation axis
ScenarioScope_anyMember(members) ==
    IF \E i \in 1..Len(members) :
          /\ ~FalsyChars(members[i].dimension)
          /\ EndsWith(Get(members[i].dimension), AxisSuffix)
          /\ ~FalsyChars(members[i].text)
          /\ EndsWith(Get(members[i].text), NonConsolidatedSuffix)
    THEN "non_consolidated"
    ELSE "consolidated"

\* lines 61-70: the scope a scenario gives; only the first member on the
\* consolidation axis is looked at (break)
RECURSIVE ScenarioScope(_)
ScenarioScope(members) ==
    IF members = <<>> THEN "consolidated"
    ELSE LET m == Head(members)
         IN  IF ~FalsyChars(m.dimension) /\ EndsWith(Get(m.dimension), AxisSuffix)
             THEN IF ~FalsyChars(m.text) /\ EndsWith(Get(m.text), NonConsolidatedSuffix)
                  THEN "non_consolidated"
                  ELSE "consolidated"
             ELSE ScenarioScope(Tail(members))

\* a variant of the context data that never looks for an instant
ContextData_ignoresInstant(c) ==
    [id |-> Get(c.id),
     startDate |-> ChildText(Get(c.period), "startDate"),
     endDate |-> ChildText(Get(c.period), "endDate"),
     is_duration |-> TRUE,
     scope |-> IF IsNone(c.scenario) THEN "consolidated"
               ELSE ScenarioScope(Get(c.scenario))]

\* lines 37-70: the context_data of one context element that has a period
ContextData(c) ==
    LET period == Get(c.period)
        instant == ChildText(period, "instant")
    IN  [id |-> Get(c.id),
         startDate |-> IF IsNone(instant) THEN ChildText(period, "startDate") ELSE None,
         endDate |-> IF IsNone(instant) THEN ChildText(period, "endDate") ELSE instant,
         is_duration |-> IsNone(instant),
         scope |-> IF IsNone(c.scenario) THEN "consolidated"
                   ELSE ScenarioScope(Get(c.scenario))]

\* ctx_map[cid] = context_data on an insertion-ordered dict: an id already
\* present keeps its place and takes the new value
DictPut(m, data) ==
    IF \E i \in 1..Len(m) : m[i].id = data.id
    THEN [i \in 1..Len(m) |-> IF m[i].id = data.id THEN data ELSE m[i]]
    ELSE Append(m, data)

RECURSIVE BuildFrom(_, _)
BuildFrom(decls, m) ==
    IF decls = <<>> THEN m
    ELSE LET c == Head(decls)
         IN  IF Falsy(c.id) \/ IsNone(c.period)
             THEN BuildFrom(Tail(decls), m)
             ELSE BuildFrom(Tail(decls), DictPut(m, ContextData(c)))

\* _build_contexts(root): the context map (in insertion order) and root.nsmap
_build_contexts(root) == [ctx_map |-> BuildFrom(root.ctxDecls, <<>>), ns |-> root.nsmap]

\* contexts.get(cid)
CtxGet(contexts, cid) ==
    IF \E i \in 1..Len(contexts) : contexts[i].id = cid
    THEN Some(contexts[CHOOSE i \in 1..Len(contexts) : contexts[i].id = cid])
    ELSE None

InList(x, list) == \E i \in 1..Len(list) : list[i] = x

(***************************************************************************)
(* _unit_is_jpy(root, unit_ref)                                            *)
(***************************************************************************)
JpyLower == <<"j", "p", "y">>

MeasureIsJpy(m) == EndsWith(Lower(m), <<":">> \o JpyLower) \/ Lower(m) = JpyLower

CountOf(s, c) == Cardinality({i \in 1..Len(s) : s[i] = c})

\* a unit reference that closes the string literal of the expression of
\* line 84 and adds a condition that always holds: x' or '1'='1
InjectedRef == <<"x", "'", " ", "o", "r", " ", "'", "1", "'", "=", "'", "1">>

\* line 84: root.xpath(f"//xbrli:unit[@id='{unit_ref}']", namespaces=ns).
\* The reference is pasted between two apostrophes.  With an odd number of
\* apostrophes in it a string literal of the expression stays open and the
\* evaluation raises XPathEvalError; InjectedRef gives the predicate
\* [@id='x' or '1'='1'], which every unit satisfies; without an apostrophe
\* the units with that id are selected, in document order.  (Other
\* references with an even number of apostrophes are not modelled.)
UnitXPath(root, unit_ref) ==
    IF CountOf(unit_ref, "'") % 2 = 1
    THEN [outcome |-> "XPathEvalError", units |-> <<>>]
    ELSE IF unit_ref = InjectedRef
    THEN [outcome |-> "returned", units |-> root.units]
    ELSE [outcome |-> "returned", units |-> SelectSeq(root.units, LAMBDA d : d.id = unit_ref)]

\* a variant that takes every unit for the yen
_unit_is_jpy_always(root, unit_ref) == [outcome |-> "returned", val |-> TRUE]

\* lines 75-89: [outcome |-> "returned", val |-> the Boolean returned], or
\* the exception raised as outcome
_unit_is_jpy(root, unit_ref) ==
    IF FalsyChars(unit_ref) THEN [outcome |-> "returned", val |-> FALSE]
    ELSE IF Lower(Get(unit_ref)) = JpyLower THEN [outcome |-> "returned", val |-> TRUE]
    ELSE CHOOSE r \in
            {IF u.outcome # "returned" THEN [outcome |-> u.outcome, val |-> FALSE]
             ELSE IF u.units = <<>> THEN [outcome |-> "returned", val |-> FALSE]
             ELSE [outcome |-> "returned",
                   val |-> \E i \in 1..Len(u.units[1].measures) :
                              MeasureIsJpy(u.units[1].measures[i])] :
                u \in {UnitXPath(root, Get(unit_ref))}} : TRUE

(***************************************************************************)
(* _find_fact_in_contexts.  A tag "prefix:Local" is the record             *)
(* [prefix |-> Some("prefix"), local |-> "Local"], a tag "Local" has       *)
(* prefix None.  The result is [outcome, val, tag, ctx]; val, tag and ctx  *)
(* are None or Some.                                                       *)
(***************************************************************************)
Tag(local) == [prefix |-> None, local |-> local]
PTag(prefix, local) == [prefix |-> Some(prefix), local |-> local]

Absent == [outcome |-> "returned", val |-> None, tag |-> None, ctx |-> None]
Raised(exc) == [outcome |-> exc, val |-> None, tag |-> None, ctx |-> None]
Found(v, tag, cid) == [outcome |-> "returned", val |-> Some(v), tag |-> Some(tag), ctx |-> Some(cid)]

\* lines 126-155: the element passes the context, period-kind, unit and
\* namespace filters
PassesFilters(root, contexts, ns, tag, el, allowed_context_ids, need_duration, check_unit) ==
    /\ ~Falsy(el.contextRef)
    /\ InList(Get(el.contextRef), allowed_context_ids)
    /\ ~IsNone(CtxGet(contexts, Get(el.contextRef)))
    /\ Get(CtxGet(contexts, Get(el.contextRef))).is_duration = need_duration
    /\ (check_unit => _unit_is_jpy(root, el.unitRef).val)
    /\ ~(/\ ~IsNone(tag.prefix)
         /\ ~Falsy(DictGet(ns, Get(tag.prefix)))
         /\ Get(DictGet(ns, Get(tag.prefix))) # el.ns)

\* lines 126-144: the element reaches the unit check of line 144 and
\* _unit_is_jpy raises there
UnitCheckRaises(root, contexts, el, allowed_context_ids, need_duration, check_unit) ==
    /\ ~Falsy(el.contextRef)
    /\ InList(Get(el.contextRef), allowed_context_ids)
    /\ ~IsNone(CtxGet(contexts, Get(el.contextRef)))
    /\ Get(CtxGet(contexts, Get(el.contextRef))).is_duration = need_duration
    /\ check_unit
    /\ _unit_is_jpy(root, el.unitRef).outcome # "returned"

\* lines 114-165: the loop over the elements of one tag; "nomatch" when the
\* loop ends without a return
RECURSIVE ScanElems(_, _, _, _, _, _, _, _)
ScanElems(root, contexts, ns, tag, elems, allowed_context_ids, need_duration, check_unit) ==
    IF elems = <<>> THEN [outcome |-> "nomatch"]
    ELSE LET el == Head(elems)
             rest == ScanElems(root, contexts, ns, tag, Tail(elems),
                               allowed_context_ids, need_duration, check_unit)
         IN  IF UnitCheckRaises(root, contexts, el, allowed_context_ids,
                                need_duration, check_unit)
             THEN Raised(_unit_is_jpy(root, el.unitRef).outcome)
             ELSE IF ~PassesFilters(root, contexts, ns, tag, el,
                               allowed_context_ids, need_duration, check_unit)
             THEN rest
             ELSE LET p == _parse_int_loose(el.text)
                  IN  CASE p.outcome = "returned" -> Found(p.val, tag, Get(el.contextRef))
                        [] p.outcome = "ValueError" -> rest
                        [] OTHER -> Raised(p.outcome)

\* a variant of the tag loop that walks the tag list from its end
RECURSIVE ScanTags_lastFirst(_, _, _, _, _, _, _)
ScanTags_lastFirst(root, contexts, ns, tag_list, allowed_context_ids, need_duration, check_unit) ==
    IF tag_list = <<>> THEN Absent
    ELSE LET tag == tag_list[Len(tag_list)]
             elems == SelectSeq(root.elems, LAMBDA e : e.local = tag.local)
             r == ScanElems(root, contexts, ns, tag, elems,
                            allowed_context_ids, need_duration, check_unit)
         IN  IF r.outcome = "nomatch"
             THEN ScanTags_lastFirst(root, contexts, ns, SubSeq(tag_list, 1, Len(tag_list) - 1),
                                     allowed_context_ids, need_duration, check_unit)
             ELSE r

\* a variant of the tag loop that gives up after the first tag
ScanTags_firstTagOnly(root, contexts, ns, tag_list, allowed_context_ids, need_duration, check_unit) ==
    IF tag_list = <<>> THEN Absent
    ELSE LET tag == Head(tag_list)
             elems == SelectSeq(root.elems, LAMBDA e : e.local = tag.local)
             r == ScanElems(root, contexts, ns, tag, elems,
                            allowed_context_ids, need_duration, check_unit)
         IN  IF r.outcome = "nomatch" THEN Absent ELSE r

\* lines 106-170: the loop over the tags
RECURSIVE ScanTags(_, _, _, _, _, _, _)
ScanTags(root, contexts, ns, tag_list, allowed_context_ids, need_duration, check_unit) ==
    IF tag_list = <<>> THEN Absent
    ELSE LET tag == Head(tag_list)
             elems == SelectSeq(root.elems, LAMBDA e : e.local = tag.local)
             r == ScanElems(root, contexts, ns, tag, elems,
                            allowed_context_ids, need_duration, check_unit)
         IN  IF r.outcome = "nomatch"
             THEN ScanTags(root, contexts, ns, Tail(tag_list),
                           allowed_context_ids, need_duration, check_unit)
             ELSE r

\* line 99: root.find('.//jpdei_cor:EDINETCodeDEI', root.nsmap).text is read
\* before anything else; "ok" or the exception the read ends in
ReadEdinetCode(root) ==
    CASE "jpdei_cor" \notin DOMAIN root.nsmap -> "SyntaxError"
      [] root.dei = "absent" -> "AttributeError"
      [] root.dei = "notext" -> "TypeError"
      [] OTHER -> "ok"

_find_fact_in_contexts(root, contexts, ns, tag_list, allowed_context_ids, need_duration, check_unit) ==
    IF ReadEdinetCode(root) # "ok" THEN Raised(ReadEdinetCode(root))
    ELSE ScanTags(root, contexts, ns, tag_list, allowed_context_ids, need_duration, check_unit)

(***************************************************************************)
(* _calculate_inventories_value                                            *)
(***************************************************************************)
total_tags ==
    <<PTag("jpigp_cor", "InventoriesCAIFRS"),
      PTag("jppfs_cor", "Inventories"),
      Tag("Inventories"),
      Tag("InventoriesNet")>>

CalculatedTag == Tag("Inventories(Calculated)")

\* the running state of the component sum: total_from_components,
\* found_any_component, found_ctx_id, and the exception that ended the call
InvStart == [total |-> 0, found |-> FALSE, ctx |-> None, exc |-> None]

\* one resolver call on a single tag with the default check_unit=True
FindOne(root, contexts, ns, tag_name, allowed_context_ids, need_duration) ==
    _find_fact_in_contexts(root, contexts, ns, <<Tag(tag_name)>>, allowed_context_ids,
                           need_duration, TRUE)

\* a variant that keeps the context of the last component found
AddFound_lastCtx(acc, r) ==
    IF ~IsNone(acc.exc) THEN acc
    ELSE IF r.outcome # "returned" THEN [acc EXCEPT !.exc = Some(r.outcome)]
    ELSE IF IsNone(r.val) THEN acc
    ELSE [total |-> acc.total + Get(r.val), found |-> TRUE, ctx |-> r.ctx, exc |-> None]

\* lines 194-202 and 219-224: add a resolved component; the context of the
\* first component found is kept
AddFound(acc, r) ==
    IF ~IsNone(acc.exc) THEN acc
    ELSE IF r.outcome # "returned" THEN [acc EXCEPT !.exc = Some(r.outcome)]
    ELSE IF IsNone(r.val) THEN acc
    ELSE [total |-> acc.total + Get(r.val),
          found |-> TRUE,
          ctx |-> IF acc.found THEN acc.ctx ELSE r.ctx,
          exc |-> None]

\* lines 205-209: the combined tag of the first block sets found_ctx_id
\* unconditionally
AddCombinedFirst(acc, r) ==
    [total |-> acc.total + Get(r.val), found |-> TRUE, ctx |-> r.ctx, exc |-> None]

\* a variant of a block that adds the two parts on top of the combined tag
Block_addsParts(acc, combined, partA, partB, first) ==
    IF ~IsNone(acc.exc) THEN acc
    ELSE IF combined.outcome # "returned" THEN [acc EXCEPT !.exc = Some(combined.outcome)]
    ELSE AddFound(AddFound(AddFound(acc, combined), partA), partB)

\* one block: the combined tag if it resolves, else the two parts
Block(acc, combined, partA, partB, first) ==
    IF ~IsNone(acc.exc) THEN acc
    ELSE IF combined.outcome # "returned" THEN [acc EXCEPT !.exc = Some(combined.outcome)]
    ELSE IF ~IsNone(combined.val)
         THEN IF first THEN AddCombinedFirst(acc, combined) ELSE AddFound(acc, combined)
         ELSE AddFound(AddFound(acc, partA), partB)

\* lines 185-187 and 229-232: the total if it resolved (or the exception of
\* its lookup), else the component sum
InvResult(t, acc) ==
    IF t.outcome # "returned" \/ ~IsNone(t.val) THEN t
    ELSE IF ~IsNone(acc.exc) THEN Raised(Get(acc.exc))
    ELSE IF acc.found
         THEN [outcome |-> "returned", val |-> Some(acc.total),
               tag |-> Some(CalculatedTag), ctx |-> acc.ctx]
         ELSE Absent

\* lines 190-227 on the results f of the component lookups; b1 and b2 are
\* the running state after the first and the second block
InvSum(f) ==
    CHOOSE b3 \in
        {Block(b2, f.RawMaterialsAndSupplies, f.RawMaterials, f.Supplies, FALSE) :
            b2 \in {AddFound(AddFound(b1, f.WorkInProcess), f.SemiFinishedGoods) :
                b1 \in {Block(InvStart, f.MerchandiseAndFinishedGoods,
                              f.Merchandise, f.FinishedGoods, TRUE)}}} : TRUE

\* f holds the result of each resolver call, made once
_calculate_inventories_value(root, contexts, ns, allowed_context_ids, need_duration) ==
    LET one(name) == FindOne(root, contexts, ns, name, allowed_context_ids, need_duration)
    IN  CHOOSE result \in
          {InvResult(f.total, InvSum(f)) :
             f \in {[total |-> _find_fact_in_contexts(root, contexts, ns, total_tags,
                                                      allowed_context_ids, need_duration, TRUE),
                     MerchandiseAndFinishedGoods |-> one("MerchandiseAndFinishedGoods"),
                     Merchandise |-> one("Merchandise"),
                     FinishedGoods |-> one("FinishedGoods"),
                     WorkInProcess |-> one("WorkInProcess"),
                     SemiFinishedGoods |-> one("SemiFinishedGoods"),
                     RawMaterialsAndSupplies |-> one("RawMaterialsAndSupplies"),
                     RawMaterials |-> one("RawMaterials"),
                     Supplies |-> one("Supplies")]}} : TRUE

(***************************************************************************)
(* Dates.  An ISO date text "YYYY-MM-DD" is the record [y, m, d]; the      *)
(* string comparison of two such texts is the comparison of the records.   *)
(***************************************************************************)
DateGT(a, b) ==
    \/ a.y > b.y
    \/ a.y = b.y /\ a.m > b.m
    \/ a.y = b.y /\ a.m = b.m /\ a.d > b.d

IsLeap(y) == (y % 4 = 0 /\ y % 100 # 0) \/ y % 400 = 0

DaysInMonth(y, m) ==
    CASE m \in {4, 6, 9, 11} -> 30
      [] m = 2 -> IF IsLeap(y) THEN 29 ELSE 28
      [] OTHER -> 31

\* datetime.strptime(text, "%Y-%m-%d") succeeds
ValidDate(dt) == dt.m \in 1..12 /\ dt.d \in 1..DaysInMonth(dt.y, dt.m)

\* (d - timedelta(days=1)).strftime("%Y-%m-%d")
PrevDay(dt) ==
    IF dt.d > 1 THEN [dt EXCEPT !.d = dt.d - 1]
    ELSE IF dt.m > 1 THEN [y |-> dt.y, m |-> dt.m - 1, d |-> DaysInMonth(dt.y, dt.m - 1)]
    ELSE [y |-> dt.y - 1, m |-> 12, d |-> 31]

\* str(int(date[:4]) - 1) + date[4:]
YearBefore(dt) == [dt EXCEPT !.y = dt.y - 1]

(***************************************************************************)
(* get_latest_dates, get_target_context_ids                                *)
(***************************************************************************)
RECURSIVE LatestEnd(_, _, _)
LatestEnd(contexts, is_duration, latest) ==
    IF contexts = <<>> THEN latest
    ELSE LET ctx == Head(contexts)
             better == /\ ctx.is_duration = is_duration
                       /\ ~IsNone(ctx.endDate)
                       /\ (IsNone(latest) \/ DateGT(Get(ctx.endDate), Get(latest)))
         IN  LatestEnd(Tail(contexts), is_duration, IF better THEN ctx.endDate ELSE latest)

\* a variant of get_latest_dates that takes the first end date of each kind
get_latest_dates_first(contexts) ==
    [duration |-> IF \E i \in 1..Len(contexts) :
                        contexts[i].is_duration /\ ~IsNone(contexts[i].endDate)
                  THEN contexts[CHOOSE i \in 1..Len(contexts) :
                                   /\ contexts[i].is_duration /\ ~IsNone(contexts[i].endDate)
                                   /\ \A j \in 1..(i - 1) :
                                         ~(contexts[j].is_duration /\ ~IsNone(contexts[j].endDate))].endDate
                  ELSE None,
     instant |-> IF \E i \in 1..Len(contexts) :
                       ~contexts[i].is_duration /\ ~IsNone(contexts[i].endDate)
                 THEN contexts[CHOOSE i \in 1..Len(contexts) :
                                  /\ ~contexts[i].is_duration /\ ~IsNone(contexts[i].endDate)
                                  /\ \A j \in 1..(i - 1) :
                                        ~(~contexts[j].is_duration /\ ~IsNone(contexts[j].endDate))].endDate
                 ELSE None]

get_latest_dates(contexts) ==
    [duration |-> LatestEnd(contexts, TRUE, None), instant |-> LatestEnd(contexts, FALSE, None)]

\* a variant of get_target_context_ids that forgets the scope
get_target_context_ids_anyScope(contexts, scope, is_duration, date) ==
    LET hit == SelectSeq(contexts,
                         LAMBDA ctx : ctx.is_duration = is_duration /\ ctx.endDate = Some(date))
    IN  [i \in 1..Len(hit) |-> hit[i].id]

get_target_context_ids(contexts, scope, is_duration, date) ==
    LET hit == SelectSeq(contexts,
                         LAMBDA ctx : /\ ctx.scope = scope
                                      /\ ctx.is_duration = is_duration
                                      /\ ctx.endDate = Some(date))
    IN  [i \in 1..Len(hit) |-> hit[i].id]

(***************************************************************************)
(* parse_financial_facts.  config.FINANCIAL_ITEM_TAGS is not defined in    *)
(* scripts/config.py; the dictionary below follows the specification's     *)
(* priority dictionary (concept name -> ordered tag list).                 *)
(***************************************************************************)
FINANCIAL_ITEM_TAGS ==
    <<[item |-> "net_sales", tags |-> <<Tag("Revenue"), Tag("NetSales")>>],
      [item |-> "inventories", tags |-> <<Tag("Inventories")>>],
      [item |-> "cash", tags |-> <<Tag("CashAndDeposits"), Tag("CashAndCashEquivalents")>>]>>

Scopes == <<"consolidated", "non_consolidated">>
Periods == <<"current", "prior">>

\* line 287
IsBsItem(item) == item \in {"inventories", "cash", "debt", "net_assets"}

\* lines 291-293 and 304-314: the admissible context ids of one lookup;
\* empty when there is no date to look for
AllowedFor(contexts, scope, item, period) ==
    LET need_duration == ~IsBsItem(item)
        latest == get_latest_dates(contexts)
        current_date == IF IsBsItem(item) THEN latest.instant ELSE latest.duration
    IN  IF IsNone(current_date) THEN <<>>
        ELSE IF period = "current"
        THEN get_target_context_ids(contexts, scope, need_duration, Get(current_date))
        ELSE LET prior_date == YearBefore(Get(current_date))
             IN  get_target_context_ids(contexts, scope, need_duration, prior_date)
                 \o (IF ValidDate(prior_date)
                     THEN get_target_context_ids(contexts, scope, need_duration,
                                                 PrevDay(prior_date))
                     ELSE <<>>)

\* lines 294-298 and 316-320: the lookup on the admissible context ids,
\* "skipped" when there is none
LookupIn(root, contexts, ns, entry, allowed) ==
    IF allowed = <<>> THEN [outcome |-> "skipped"]
    ELSE IF entry.item = "inventories"
    THEN _calculate_inventories_value(root, contexts, ns, allowed, ~IsBsItem(entry.item))
    ELSE _find_fact_in_contexts(root, contexts, ns, entry.tags, allowed,
                                ~IsBsItem(entry.item), TRUE)

Lookup(root, contexts, ns, scope, entry, period) ==
    CHOOSE r \in {LookupIn(root, contexts, ns, entry, allowed) :
                     allowed \in {AllowedFor(contexts, scope, entry.item, period)}} : TRUE

Recorded(r) == r.outcome = "returned" /\ ~IsNone(r.val)

\* lines 300-301 and 322-323
FactRecord(contexts, r) ==
    [value |-> Get(r.val), tag |-> Get(r.tag), context |-> CtxGet(contexts, Get(r.ctx))]

\* the lookups in the order the loops make them: scope, item, period
LookupOrder ==
    [n \in 1..(Len(Scopes) * Len(FINANCIAL_ITEM_TAGS) * Len(Periods)) |->
        [scope |-> Scopes[((n - 1) \div (Len(FINANCIAL_ITEM_TAGS) * Len(Periods))) + 1],
         entry |-> FINANCIAL_ITEM_TAGS[(((n - 1) \div Len(Periods)) % Len(FINANCIAL_ITEM_TAGS)) + 1],
         period |-> Periods[((n - 1) % Len(Periods)) + 1]]]

\* the result of every lookup, each made once, as the set of
\* (position in LookupOrder, result) pairs
Lookups(root, contexts, ns) ==
    {<<n, Lookup(root, contexts, ns, LookupOrder[n].scope, LookupOrder[n].entry,
                 LookupOrder[n].period)>> : n \in DOMAIN LookupOrder}

ResultOf(looks, scope, item, period) ==
    (CHOOSE p \in looks : /\ LookupOrder[p[1]].scope = scope
                          /\ LookupOrder[p[1]].entry.item = item
                          /\ LookupOrder[p[1]].period = period)[2]

\* lines 331-336
\* a variant that reads the last AccountingStandardsDEI element
AccountingStandard_last(root) ==
    IF root.std = <<>> THEN Some("N/A") ELSE root.std[Len(root.std)]

AccountingStandard(root) == IF root.std = <<>> THEN Some("N/A") ELSE root.std[1]

\* lines 282-338 on the results of the lookups: the exception of the first
\* lookup that raised, else the nested dictionary
Assemble(root, contexts, looks) ==
    LET raising == {p \in looks : p[2].outcome \notin {"returned", "skipped"}}
        item_results(scope, item) ==
            [q \in {q \in {"current", "prior"} : Recorded(ResultOf(looks, scope, item, q))} |->
                FactRecord(contexts, ResultOf(looks, scope, item, q))]
        items == {FINANCIAL_ITEM_TAGS[i].item : i \in DOMAIN FINANCIAL_ITEM_TAGS}
        scope_results(scope) ==
            [it \in {i \in items : item_results(scope, i) # <<>>} |-> item_results(scope, it)]
        scopes == {sc \in {"consolidated", "non_consolidated"} : scope_results(sc) # <<>>}
    IN  IF raising # {}
        THEN [outcome |-> (CHOOSE p \in raising : \A q \in raising : p[1] <= q[1])[2].outcome,
              results |-> <<>>]
        ELSE [outcome |-> "returned",
              results |-> [k \in scopes \cup {"accounting_standard"} |->
                              IF k = "accounting_standard" THEN AccountingStandard(root)
                              ELSE scope_results(k)]]

\* lines 261-338 on the context map
FactsOn(root, contexts, ns) ==
    IF contexts = <<>> THEN [outcome |-> "returned", results |-> <<>>]
    ELSE CHOOSE out \in {Assemble(root, contexts, looks) :
                            looks \in {Lookups(root, contexts, ns)}} : TRUE

parse_financial_facts(root) ==
    CHOOSE out \in {FactsOn(root, b.ctx_map, b.ns) : b \in {_build_contexts(root)}} : TRUE

(***************************************************************************)
(* pick_recent_annual_reports (processor.py).  The index is a sequence of  *)
(* rows; a row holds the columns as build_daily_index leaves them:         *)
(* strings, periodEnd as None (the text "None") or Some(date text),        *)
(* submitDateTime as None (NaT) or Some(timestamp).                        *)
(***************************************************************************)
\* a variant of the filter that keeps withdrawn filings
Eligible_withdrawn(row, edinet_code) ==
    /\ row.edinetCode = edinet_code
    /\ row.docTypeCode \in {"120", "130"}
    /\ row.xbrlFlag = "1"
    /\ row.disclosureStatus = "0"

\* lines 68-74
Eligible(row, edinet_code) ==
    /\ row.edinetCode = edinet_code
    /\ row.docTypeCode \in {"120", "130"}
    /\ row.xbrlFlag = "1"
    /\ row.withdrawalStatus = "0"
    /\ row.disclosureStatus = "0"

\* line 80: pd.to_datetime(errors='coerce'); None is NaT
ToDatetime(text) == IF ~IsNone(text) /\ ValidDate(Get(text)) THEN text ELSE None

\* lines 80-83: the rows with a period end, with year_key and is_corr
WithKeys(rows) ==
    LET dated == SelectSeq(rows, LAMBDA r : ~IsNone(ToDatetime(r.periodEnd)))
    IN  [i \in 1..Len(dated) |->
            [row |-> dated[i],
             year_key |-> Get(ToDatetime(dated[i].periodEnd)),
             is_corr |-> IF dated[i].docTypeCode = "130" THEN 1 ELSE 0]]

\* descending submitDateTime with NaT last: a comes strictly before b
SubmitBefore(a, b) ==
    /\ ~IsNone(a.submitDateTime)
    /\ IsNone(b.submitDateTime) \/ Get(a.submitDateTime) > Get(b.submitDateTime)

\* a variant of the ranking inside a year_key that forgets is_corr
RanksBefore_bySubmitOnly(a, b) == SubmitBefore(a.row, b.row)

\* line 86 inside one year_key: is_corr descending, then submitDateTime
\* descending
RanksBefore(a, b) ==
    \/ a.is_corr > b.is_corr
    \/ a.is_corr = b.is_corr /\ SubmitBefore(a.row, b.row)

\* the year_keys in ascending order
RECURSIVE SortedKeys(_)
SortedKeys(keys) ==
    IF keys = {} THEN <<>>
    ELSE LET least == CHOOSE k \in keys : \A o \in keys : ~DateGT(k, o)
         IN  <<least>> \o SortedKeys(keys \ {least})

\* lines 86-87: the possible tables after drop_duplicates('year_key',
\* keep='first'); rows equal on all three sort keys can stand in either order
KeptTables(sub) ==
    LET keys == SortedKeys({sub[i].year_key : i \in 1..Len(sub)})
        first(k) == {i \in 1..Len(sub) :
                        /\ sub[i].year_key = k
                        /\ \A j \in 1..Len(sub) :
                              sub[j].year_key = k => ~RanksBefore(sub[j], sub[i])}
    IN  {[n \in 1..Len(keys) |-> sub[pick[n]]] :
            pick \in {f \in [1..Len(keys) -> 1..Len(sub)] :
                         \A n \in 1..Len(keys) : f[n] \in first(keys[n])}}

\* a variant of line 90 that leaves the winners in any order
Ranked_anyOrder(kept) ==
    {[n \in 1..Len(kept) |-> kept[perm[n]]] :
        perm \in {f \in [1..Len(kept) -> 1..Len(kept)] :
                     \A m, n \in 1..Len(kept) : m # n => f[m] # f[n]}}

\* a variant of line 90 that sorts ascending: earliest submission first
Ranked_oldestFirst(kept) ==
    {[n \in 1..Len(kept) |-> kept[perm[n]]] :
        perm \in {f \in [1..Len(kept) -> 1..Len(kept)] :
                     /\ \A m, n \in 1..Len(kept) : m # n => f[m] # f[n]
                     /\ \A m, n \in 1..Len(kept) :
                           m < n => ~SubmitBefore(kept[f[m]].row, kept[f[n]].row)}}

\* line 90: the possible orders after sort_values('submitDateTime',
\* ascending=False); rows with equal submitDateTime can stand in either order
Ranked(kept) ==
    {[n \in 1..Len(kept) |-> kept[perm[n]]] :
        perm \in {f \in [1..Len(kept) -> 1..Len(kept)] :
                     /\ \A m, n \in 1..Len(kept) : m # n => f[m] # f[n]
                     /\ \A m, n \in 1..Len(kept) :
                           m < n => ~SubmitBefore(kept[f[n]].row, kept[f[m]].row)}}

\* lines 92-95: head(2).to_dict('records') with periodEnd_str added; a
\* record holds the columns of the row, periodEnd being the parsed date
Head2(ranked) ==
    [n \in 1..(IF Len(ranked) < 2 THEN Len(ranked) ELSE 2) |->
        [docID |-> ranked[n].row.docID,
         edinetCode |-> ranked[n].row.edinetCode,
         docTypeCode |-> ranked[n].row.docTypeCode,
         xbrlFlag |-> ranked[n].row.xbrlFlag,
         withdrawalStatus |-> ranked[n].row.withdrawalStatus,
         disclosureStatus |-> ranked[n].row.disclosureStatus,
         periodEnd |-> ToDatetime(ranked[n].row.periodEnd),
         submitDateTime |-> ranked[n].row.submitDateTime,
         year_key |-> ranked[n].year_key,
         is_corr |-> ranked[n].is_corr,
         periodEnd_str |-> ranked[n].year_key]]

\* the possible outcomes of the call: kept is the table after line 87,
\* results the returned list
pick_recent_annual_reports(df_idx, edinet_code) ==
    LET sub == WithKeys(SelectSeq(df_idx, LAMBDA r : Eligible(r, edinet_code)))
    IN  IF df_idx = <<>> \/ sub = <<>>
        THEN {[outcome |-> "returned", kept |-> <<>>, results |-> <<>>]}
        ELSE UNION {{[outcome |-> "returned", kept |-> kept, results |-> Head2(ranked)] :
                        ranked \in Ranked(kept)} : kept \in KeptTables(sub)}

(***************************************************************************)
(* extract_financials (processor.py).  The bytes of an XBRL instance are   *)
(* the record [markup, root]: markup is the sequence of its tags, each     *)
(* [kind |-> "open" or "close", name], and root the element tree the       *)
(* parser builds from them when they are well-formed.  The EDINET service  *)
(* is a function from docID to None (nothing could be fetched) or          *)
(* Some(bytes).  A dict is a function from its keys; a value that Python   *)
(* holds as None or v is None or Some(v).                                  *)
(***************************************************************************)
\* the tags nest properly under a single root element
RECURSIVE Nested(_, _, _)
Nested(markup, open, closedRoot) ==
    IF markup = <<>> THEN open = <<>> /\ closedRoot
    ELSE LET t == Head(markup)
         IN  IF t.kind = "open"
             THEN ~closedRoot /\ Nested(Tail(markup), <<t.name>> \o open, FALSE)
             ELSE /\ open # <<>>
                  /\ Head(open) = t.name
                  /\ Nested(Tail(markup), Tail(open), Len(open) = 1)

\* a variant of the parser that builds a tree from any bytes
fromstring_lenient(xbrl_bytes) == [outcome |-> "returned", root |-> xbrl_bytes.root]

\* line 114: etree.fromstring(xbrl_bytes)
fromstring(xbrl_bytes) ==
    IF Nested(xbrl_bytes.markup, <<>>, FALSE)
    THEN [outcome |-> "returned", root |-> xbrl_bytes.root]
    ELSE [outcome |-> "XMLSyntaxError", root |-> xbrl_bytes.root]

\* edinet_client.fetch_xbrl_instance(doc_id, api_key): every failure of the
\* request or of the zip is answered with None
fetch_xbrl_instance(edinet, doc_id) == edinet[doc_id]

\* xbrl_parser.py lines 32 and 64: the xpath calls of _build_contexts take
\* their prefixes from root.nsmap and raise on a prefix it does not bind
XPathOutcome(root) ==
    IF \/ "xbrli" \notin DOMAIN root.nsmap
       \/ /\ "xbrldi" \notin DOMAIN root.nsmap
          /\ \E i \in 1..Len(root.ctxDecls) :
                /\ ~Falsy(root.ctxDecls[i].id)
                /\ ~IsNone(root.ctxDecls[i].period)
                /\ ~IsNone(root.ctxDecls[i].scenario)
    THEN "XPathEvalError"
    ELSE "ok"

\* xbrl_parser._extract_single_fact is called by extract_financials and is
\* not defined in scripts/xbrl_parser.py.  It follows the specification's
\* targeted mode: the admissible contexts are those of the required period
\* kind that end on period_end and have the scope the consolidation flag
\* asks for, and the concept resolver is run on them.
_extract_single_fact(root, contexts, ns, tag_list, need_duration, period_end, consolidated_required, check_unit) ==
    CHOOSE r \in {_find_fact_in_contexts(root, contexts, ns, tag_list, allowed,
                                         need_duration, check_unit) :
                    allowed \in {get_target_context_ids(
                                    contexts,
                                    IF consolidated_required THEN "consolidated"
                                    ELSE "non_consolidated",
                                    need_duration, period_end)}} : TRUE

\* config.py lines 43-135
PL_TAGS ==
    [revenue |-> <<Tag("Revenue"), Tag("NetSales"), Tag("SalesRevenue"), Tag("OperatingRevenue")>>,
     operatingProfit |-> <<Tag("ProfitLossFromOperatingActivities"), Tag("OperatingIncome"),
                           Tag("OperatingProfit")>>]

BS_TAGS ==
    [totalAssets |-> <<Tag("TotalAssets"), Tag("Assets")>>,
     totalLiabilities |-> <<Tag("TotalLiabilities"), Tag("Liabilities")>>,
     equity |-> <<Tag("Equity"), Tag("NetAssets"), Tag("EquityAttributableToOwnersOfParent")>>,
     currentAssets |-> <<Tag("CurrentAssets"), Tag("AssetsCurrent")>>,
     currentLiabilities |-> <<Tag("CurrentLiabilities"), Tag("LiabilitiesCurrent")>>,
     inventory |-> <<Tag("Inventories"), Tag("MerchandiseAndFinishedGoods"), Tag("InventoriesNet")>>,
     accountsReceivable |-> <<Tag("NotesAndAccountsReceivableTrade"), Tag("AccountsReceivableTrade"),
                              Tag("NotesAndAccountsReceivableTradeAndContractAssets")>>]

CF_TAGS ==
    [operatingCashFlow |-> <<Tag("NetCashProvidedByUsedInOperatingActivities"),
                             Tag("CashFlowsFromUsedInOperatingActivities")>>]

SHARES_TAGS ==
    [total_shares |-> <<Tag("TotalNumberIssuedSharesSummaryOfBusinessResults"),
                        Tag("TotalNumberOfIssuedSharesSummaryOfBusinessResults"),
                        Tag("TotalNumberIssuedShares"), Tag("CommonStockIssue")>>]

NET_INCOME_TAGS ==
    [income_statement |-> <<Tag("ProfitLossAttributableToOwnersOfParent"),
                            Tag("ProfitLossAttributableToOwnersOfParentIFRS"),
                            Tag("ProfitLossAttributableToOwnersOfParentSummaryOfBusinessResults"),
                            Tag("ProfitAttributableToOwnersOfParent"),
                            Tag("NetIncomeLossAttributableToOwnersOfParent"),
                            Tag("NetIncomeLoss"), Tag("ProfitLoss"), Tag("NetIncome")>>]

CASH_TAGS ==
    <<Tag("CashAndDeposits"), Tag("CashAndCashEquivalents"), Tag("CashAndDeposits"),
      Tag("Cash"), Tag("CashAndCashEquivalentsAtCarryingValue"),
      Tag("CashAndCashEquivalentsIFRSSummaryOfBusinessResults")>>

\* one call of lines 132-181: the key the value is stored under at lines
\* 189-202, the keys of its tag and context id ("" when the call drops them),
\* and the arguments; consolidated is "caller" where the call passes on
\* consolidated_required
Call(key, tagKey, ctxKey, tags, need_duration, consolidated, check_unit) ==
    [key |-> key, tagKey |-> tagKey, ctxKey |-> ctxKey, tags |-> tags,
     need_duration |-> need_duration, consolidated |-> consolidated, check_unit |-> check_unit]

\* lines 132-181 in the order of the calls
Calls ==
    <<Call("revenue", "revenueTag", "revenueCtx", PL_TAGS.revenue, TRUE, "caller", TRUE),
      Call("operatingProfit", "operatingProfitTag", "operatingProfitCtx",
           PL_TAGS.operatingProfit, TRUE, "caller", TRUE),
      Call("operatingCashFlow", "operatingCashFlowTag", "operatingCashFlowCtx",
           CF_TAGS.operatingCashFlow, TRUE, "caller", TRUE),
      Call("totalAssets", "totalAssetsTag", "totalAssetsCtx", BS_TAGS.totalAssets,
           FALSE, "caller", TRUE),
      Call("totalLiabilities", "totalLiabilitiesTag", "totalLiabilitiesCtx",
           BS_TAGS.totalLiabilities, FALSE, "caller", TRUE),
      Call("equity", "equityTag", "equityCtx", BS_TAGS.equity, FALSE, "caller", TRUE),
      Call("currentAssets", "currentAssetsTag", "currentAssetsCtx", BS_TAGS.currentAssets,
           FALSE, "caller", TRUE),
      Call("currentLiabilities", "currentLiabilitiesTag", "currentLiabilitiesCtx",
           BS_TAGS.currentLiabilities, FALSE, "caller", TRUE),
      Call("inventory", "inventoryTag", "inventoryCtx", BS_TAGS.inventory, FALSE, "caller", TRUE),
      Call("accountsReceivable", "accountsReceivableTag", "accountsReceivableCtx",
           BS_TAGS.accountsReceivable, FALSE, "caller", TRUE),
      Call("totalShares", "", "", SHARES_TAGS.total_shares, FALSE, "no", FALSE),
      Call("netIncome", "", "", NET_INCOME_TAGS.income_statement, TRUE, "yes", TRUE),
      Call("cashAndEquivalents", "", "", CASH_TAGS, FALSE, "yes", TRUE)>>

\* a variant of the calls that always asks for consolidated contexts
SingleFacts_consolidatedOnly(root, contexts, ns, period_end, consolidated_required) ==
    {<<i, _extract_single_fact(root, contexts, ns, Calls[i].tags, Calls[i].need_duration,
                               period_end, TRUE, Calls[i].check_unit)>> : i \in 1..Len(Calls)}

\* the results of the calls of lines 132-181, each paired with its position
SingleFacts(root, contexts, ns, period_end, consolidated_required) ==
    {<<i, _extract_single_fact(root, contexts, ns, Calls[i].tags, Calls[i].need_duration,
                               period_end,
                               CASE Calls[i].consolidated = "caller" -> consolidated_required
                                 [] Calls[i].consolidated = "yes" -> TRUE
                                 [] OTHER -> FALSE,
                               Calls[i].check_unit)>> : i \in 1..Len(Calls)}

\* the result of the call whose value is stored under key
FactOfKey(facts, key) ==
    (CHOOSE p \in facts : Calls[p[1]].key = key)[2]

\* lines 122-127: the text of the first AccountingStandardsDEI element, or
\* "N/A" when there is none
StandardOf(root) == IF root.std = <<>> THEN Some("N/A") ELSE root.std[1]

\* report.get(key): None for a key the row does not have
ReportGet(report, key) == IF key \in DOMAIN report THEN report[key] ELSE None

\* lines 103-107
MinimalDetails(report) ==
    [k \in {"docID", "periodEnd", "periodStart"} |->
        CASE k = "docID" -> Some(report.docID)
          [] k = "periodEnd" -> Some(report.periodEnd_str)
          [] OTHER -> ReportGet(report, "periodStart")]

\* lines 125 and 189-202: details with accountingStandard and the update
Updated(details, root, facts) ==
    [k \in DOMAIN details \cup {"accountingStandard"}
             \cup {Calls[i].key : i \in 1..Len(Calls)}
             \cup ({Calls[i].tagKey : i \in 1..Len(Calls)} \ {""})
             \cup ({Calls[i].ctxKey : i \in 1..Len(Calls)} \ {""}) |->
        CASE k \in DOMAIN details -> details[k]
          [] k = "accountingStandard" -> StandardOf(root)
          [] \E i \in 1..Len(Calls) : Calls[i].key = k -> FactOfKey(facts, k).val
          [] \E i \in 1..Len(Calls) : Calls[i].tagKey = k ->
                (CHOOSE p \in facts : Calls[p[1]].tagKey = k)[2].tag
          [] OTHER -> (CHOOSE p \in facts : Calls[p[1]].ctxKey = k)[2].ctx]

\* lines 132-203 on the results of the calls: the exception of the first
\* call that raised, else the record
Finish(details, root, facts) ==
    LET raising == {p \in facts : p[2].outcome # "returned"}
    IN  IF raising # {}
        THEN [outcome |-> (CHOOSE p \in raising : \A q \in raising : p[1] <= q[1])[2].outcome,
              details |-> details]
        ELSE [outcome |-> "returned", details |-> Updated(details, root, facts)]

\* lines 115-203 on the parsed root; an exception of _build_contexts other
\* than XMLSyntaxError leaves the function
ExtractFrom(details, root, period_end, consolidated_required) ==
    IF XPathOutcome(root) # "ok"
    THEN [outcome |-> XPathOutcome(root), details |-> details]
    ELSE CHOOSE out \in
            {Finish(details, root, facts) :
                facts \in {SingleFacts(root, b.ctx_map, b.ns, period_end, consolidated_required) :
                              b \in {_build_contexts(root)}}} : TRUE

\* extract_financials(report, api_key, consolidated_required): the record
\* returned, or the exception raised
extract_financials(report, edinet, consolidated_required) ==
    LET details == MinimalDetails(report)
        xbrl_bytes == fetch_xbrl_instance(edinet, report.docID)
    IN  IF IsNone(xbrl_bytes) \/ Get(xbrl_bytes).markup = <<>>
        THEN [outcome |-> "returned", details |-> details]
        ELSE IF fromstring(Get(xbrl_bytes)).outcome = "XMLSyntaxError"
             THEN [outcome |-> "returned", details |-> details]
             ELSE ExtractFrom(details, fromstring(Get(xbrl_bytes)).root,
                              report.periodEnd_str, consolidated_required)

(***************************************************************************)
(* analyze_company_latest (processor.py).  master_df maps an EDINET code   *)
(* to the row of the company; consolidated is its column on whether the    *)
(* company reports consolidated figures ("yes", "no" or anything else),    *)
(* ticker its securities code as None or Some(characters).                 *)
(* The result is None (no data), the container, or the exception raised;   *)
(* reports is the list pick_recent_annual_reports gave.  The clock values  *)
(* (extracted_at, checked_at) and the columns the index of the model does  *)
(* not carry are left out of the records.                                  *)
(***************************************************************************)
\* details.get(key)
DetailsGet(details, key) == IF key \in DOMAIN details THEN details[key] ELSE None

\* lines 230-239
ConsolidatedFlag(company_info) ==
    CASE company_info.consolidated = "yes" -> "CONSOLIDATED"
      [] company_info.consolidated = "no" -> "NON_CONSOLIDATED"
      [] OTHER -> "UNKNOWN"

ConsolidatedRequired(company_info) == company_info.consolidated # "no"

\* lines 256-267: the loop calls extract_financials for each report in turn;
\* an exception of a call leaves the loop and the function
RECURSIVE ExtractAll(_, _, _)
ExtractAll(reports, edinet, consolidated_required) ==
    IF reports = <<>> THEN [outcome |-> "returned", details |-> <<>>]
    ELSE CHOOSE out \in
            {IF d.outcome # "returned"
             THEN [outcome |-> d.outcome, details |-> <<>>]
             ELSE CHOOSE o \in
                     {IF rest.outcome # "returned" THEN rest
                      ELSE [outcome |-> "returned", details |-> <<d.details>> \o rest.details] :
                         rest \in {ExtractAll(Tail(reports), edinet, consolidated_required)}} : TRUE :
                d \in {extract_financials(Head(reports), edinet, consolidated_required)}} : TRUE

\* lines 270-286
FilingRec(code, report, details, company_info) ==
    [doc_id |-> report.docID,
     edinet_code |-> code,
     doc_type_code |-> report.docTypeCode,
     submit_datetime |-> report.submitDateTime,
     period_start |-> DetailsGet(details, "periodStart"),
     period_end |-> DetailsGet(details, "periodEnd"),
     accounting_standard |-> DetailsGet(details, "accountingStandard"),
     consolidated_flag |-> ConsolidatedFlag(company_info)]

\* lines 290-292
QualityFlags(details) ==
    (IF IsNone(DetailsGet(details, "currentAssets")) THEN <<"MISSING_CA">> ELSE <<>>)
    \o (IF IsNone(DetailsGet(details, "totalLiabilities")) THEN <<"MISSING_TL">> ELSE <<>>)

\* lines 294-309
SnapshotRec(report, details) ==
    [doc_id |-> report.docID,
     current_assets |-> DetailsGet(details, "currentAssets"),
     total_liabilities |-> DetailsGet(details, "totalLiabilities"),
     operating_cash_flow |-> DetailsGet(details, "operatingCashFlow"),
     inventory |-> DetailsGet(details, "inventory"),
     accounts_receivable |-> DetailsGet(details, "accountsReceivable"),
     unit_multiplier |-> 1,
     source_quality_flags |-> QualityFlags(details),
     total_shares |-> DetailsGet(details, "totalShares"),
     net_income |-> DetailsGet(details, "netIncome"),
     cash_and_equivalents |-> DetailsGet(details, "cashAndEquivalents")]

\* a variant of the comparison in which a missing value counts as zero
Compare_missingAsZero(y1, y0, key, num, den) ==
    Some(IF den * (IF IsNone(DetailsGet(y1, key)) THEN 0 ELSE Get(DetailsGet(y1, key)))
               > num * (IF IsNone(DetailsGet(y0, key)) THEN 0 ELSE Get(DetailsGet(y0, key)))
         THEN 1 ELSE 0)

\* lines 324-334: 1 or 0 when both years have the value, else None; the
\* factor 1.2 is applied as 6/5
Compare(y1, y0, key, num, den) ==
    IF IsNone(DetailsGet(y1, key)) \/ IsNone(DetailsGet(y0, key)) THEN None
    ELSE Some(IF den * Get(DetailsGet(y1, key)) > num * Get(DetailsGet(y0, key)) THEN 1 ELSE 0)

\* lines 315-352
ScreeningRec(code, reports, processed) ==
    LET y1 == processed[1]
        y0 == IF Len(processed) > 1 THEN processed[2] ELSE <<>>
        ncav == IF IsNone(DetailsGet(y1, "currentAssets"))
                   \/ IsNone(DetailsGet(y1, "totalLiabilities"))
                THEN None
                ELSE Some(Get(y1["currentAssets"]) - Get(y1["totalLiabilities"]))
    IN  [edinet_code |-> code,
         latest_doc_id |-> y1["docID"],
         latest_submit_datetime |-> reports[1].submitDateTime,
         latest_period_end |-> DetailsGet(y1, "periodEnd"),
         ncav |-> ncav,
         is_cf_increasing |-> Compare(y1, y0, "operatingCashFlow", 1, 1),
         is_inventory_warning |-> Compare(y1, y0, "inventory", 6, 5),
         is_receivable_warning |-> Compare(y1, y0, "accountsReceivable", 6, 5),
         alert_flags |-> IF IsNone(ncav) THEN <<"NCAV_CALC_FAILED">> ELSE <<>>]

\* a variant that records only the filings whose document was read
Container_readOnly(code, company_info, reports, processed) ==
    LET read == {i \in 1..Len(processed) : "accountingStandard" \in DOMAIN processed[i]}
        nth(n) == CHOOSE i \in read : Cardinality({j \in read : j < i}) = n - 1
    IN  [company |-> [edinet_code |-> code, ticker |-> None,
                      company_name |-> company_info.name],
         filings |-> [n \in 1..Cardinality(read) |->
                         FilingRec(code, reports[nth(n)], processed[nth(n)], company_info)],
         financial_snapshots |-> [n \in 1..Cardinality(read) |->
                                     SnapshotRec(reports[nth(n)], processed[nth(n)])],
         company_screening |-> ScreeningRec(code, reports, processed)]

\* lines 242-353 on the details of the reports
Container(code, company_info, reports, processed) ==
    [company |-> [edinet_code |-> code,
                  ticker |-> IF IsNone(company_info.ticker) THEN None
                             ELSE Some(SubSeq(Get(company_info.ticker), 1,
                                              Len(Get(company_info.ticker)) - 1)),
                  company_name |-> company_info.name],
     filings |-> [i \in 1..Len(processed) |->
                     FilingRec(code, reports[i], processed[i], company_info)],
     financial_snapshots |-> [i \in 1..Len(processed) |-> SnapshotRec(reports[i], processed[i])],
     company_screening |-> ScreeningRec(code, reports, processed)]

\* lines 226-353 on the picked reports
AnalyzeReports(code, company_info, reports, edinet) ==
    IF reports = <<>> THEN [outcome |-> "returned", reports |-> reports, data |-> None]
    ELSE CHOOSE out \in
            {IF all.outcome # "returned"
             THEN [outcome |-> all.outcome, reports |-> reports, data |-> None]
             ELSE [outcome |-> "returned", reports |-> reports,
                   data |-> IF all.details = <<>> THEN None
                            ELSE Some(Container(code, company_info, reports, all.details))] :
                all \in {ExtractAll(reports, edinet, ConsolidatedRequired(company_info))}} : TRUE

\* analyze_company_latest(code, api_key, master_df, doc_index_df): the
\* possible outcomes, one for each outcome of pick_recent_annual_reports
analyze_company_latest(code, edinet, master_df, doc_index_df) ==
    IF code \notin DOMAIN master_df
    THEN {[outcome |-> "returned", reports |-> <<>>, data |-> None]}
    ELSE {AnalyzeReports(code, master_df[code], p.results, edinet) :
             p \in pick_recent_annual_reports(doc_index_df, code)}

(***************************************************************************)
(* The batch loop of main (main.py).  A future is [state, call, result]:   *)
(* state is "pending" (submitted), "running" (a worker thread runs the     *)
(* call) or "finished"; call is the submitted call of                      *)
(* analyze_company_latest, kept as the set of outcomes it has on the       *)
(* arguments submitted (they do not change during the loop); result is     *)
(* what the call returned or raised.  The database is a record of tables,  *)
(* each the set of its rows.                                               *)
(***************************************************************************)
\* config.py line 27
MAX_WORKERS == 4

\* database.upsert_record(table, record, pk_cols) with one key column
Upsert(rows, record, pk) == {r \in rows : r[pk] # record[pk]} \cup {record}

RECURSIVE UpsertAll(_, _, _)
UpsertAll(rows, records, pk) ==
    IF records = <<>> THEN rows
    ELSE UpsertAll(Upsert(rows, Head(records), pk), Tail(records), pk)

\* lines 146-157: the four groups of upserts in order; the database raises
\* at the first upsert into table failAt ("" when it raises nowhere)
Persist(db, data, failAt) ==
    LET d1 == [db EXCEPT !.companies = Upsert(@, data.company, "edinet_code")]
        d2 == [d1 EXCEPT !.filings = UpsertAll(@, data.filings, "doc_id")]
        d3 == [d2 EXCEPT !.financial_snapshots =
                            UpsertAll(@, data.financial_snapshots, "doc_id")]
        d4 == [d3 EXCEPT !.company_screening =
                            Upsert(@, data.company_screening, "edinet_code")]
    IN  CASE failAt = "companies" -> [db |-> db, raised |-> TRUE]
          [] failAt = "filings" -> [db |-> d1, raised |-> TRUE]
          [] failAt = "financial_snapshots" -> [db |-> d2, raised |-> TRUE]
          [] failAt = "company_screening" -> [db |-> d3, raised |-> TRUE]
          [] OTHER -> [db |-> d4, raised |-> FALSE]

\* a variant in which an exception of the loop body leaves the loop
AfterIteration_reraises(raised) == IF raised THEN "crashed" ELSE "loop"

\* lines 143-163: where main stands after one iteration; the except clause
\* of line 162 ends the iteration and the loop goes on
AfterIteration(raised) == "loop"

\* lines 141-165: one iteration of the loop for the finished future of
\* code; batch is the state of the loop, failAt the table the database
\* raises at for this company
Iteration(batch, code, failAt) ==
    LET result == batch.futures[code].result
        counted == [batch EXCEPT !.yielded = Append(@, code),
                                 !.completed_count = @ + 1]
    IN  IF result.outcome # "returned"
        THEN [batch |-> [counted EXCEPT !.errors = @ \cup {code}], raised |-> TRUE]
        ELSE IF IsNone(result.data)
        THEN [batch |-> [counted EXCEPT !.skipped = @ \cup {code}], raised |-> FALSE]
        ELSE CHOOSE out \in
                {[batch |-> [counted EXCEPT !.db = p.db,
                                            !.errors = IF p.raised THEN @ \cup {code} ELSE @,
                                            !.saved = IF p.raised THEN @ ELSE @ \cup {code}],
                  raised |-> p.raised] :
                    p \in {Persist(batch.db, Get(result.data), failAt)}} : TRUE

(***************************************************************************)
(* Two extractions from one parsed document.  Between the calls the        *)
(* program holds the document and nothing else: xbrl_parser has no module  *)
(* variables, and every dict and list the functions write to is created    *)
(* inside the call.                                                        *)
(***************************************************************************)
\* a variant in which a call consumes the first fact element it walked over
AfterCall_consumes(root) ==
    [root EXCEPT !.elems = IF root.elems = <<>> THEN <<>> ELSE Tail(root.elems)]

\* the document a call leaves behind: the functions read root through
\* xpath, find, get and text and never write to it
AfterCall(root) == root

\* what one extraction yields: the context map with the prefix table, and
\* the fact set
Extraction(root) ==
    [contexts |-> _build_contexts(root), facts |-> parse_financial_facts(root)]

(***************************************************************************)
(* Specification SpecParse: _parse_int_loose on every text of at most      *)
(* MaxTextLen characters over Chars, on the sample texts and on None.      *)
(***************************************************************************)
Chars == {"0", "1", "7", ",", "(", ")", " ", "-", "+", "."}

BoundedSeq(S, n) == UNION {[1..k -> S] : k \in 0..n}

SampleTexts ==
    { <<"1", ",", "2", "3", "4", ",", "5", "6", "7">>,
      <<"1", "2", ",", "0", "0", "0">>,
      <<"(", "5", "0", "0", ")">>,
      <<" ", "(", "1", ",", "0", "0", "0", ")", " ">>,
      <<"-", "1", ",", "0", "0", "0">>,
      <<"1", "2", ".", "9">>,
      <<"a", "b", "c">>,
      <<"n", "a", "n">>,
      <<"i", "n", "f">>,
      <<"-", "I", "n", "f", "i", "n", "i", "t", "y">> }

ParseInputs == {None} \cup {Some(s) : s \in BoundedSeq(Chars, MaxTextLen) \cup SampleTexts}

InitParse ==
    /\ mode = "parse"
    /\ pc = "call"
    /\ \E t \in ParseInputs : input = [txt |-> t]
    /\ output = NoOutput

ParseIntLoose ==
    /\ mode = "parse"
    /\ pc = "call"
    /\ output' = _parse_int_loose(input.txt)
    /\ pc' = "done"
    /\ UNCHANGED <<mode, input>>

NextParse == ParseIntLoose

SpecParse == InitParse /\ [][NextParse]_vars

(***************************************************************************)
(* Documents for the specifications below.                                 *)
(***************************************************************************)
NsMap ==
    [xbrli |-> "http://www.xbrl.org/2003/instance",
     jpdei_cor |-> "http://disclosure.edinet-fsa.go.jp/taxonomy/jpdei/cor",
     jppfs_cor |-> "http://disclosure.edinet-fsa.go.jp/taxonomy/jppfs/cor",
     jpigp_cor |-> "http://disclosure.edinet-fsa.go.jp/taxonomy/jpigp/cor",
     xbrldi |-> "http://xbrl.org/2006/xbrldi"]

Date(y, m, d) == [y |-> y, m |-> m, d |-> d]

FY24Start == Date(2023, 4, 1)
FY24End == Date(2024, 3, 31)
FY23Start == Date(2022, 4, 1)
FY23End == Date(2023, 3, 31)

ConsolidationAxis == <<"jppfs_cor:", "ConsolidatedOrNonConsolidatedAxis">>

ConsolidatedScenario ==
    Some(<<[dimension |-> Some(ConsolidationAxis),
            text |-> Some(<<"jppfs_cor:", "ConsolidatedMember">>)]>>)

NonConsolidatedScenario ==
    Some(<<[dimension |-> Some(ConsolidationAxis),
            text |-> Some(<<"jppfs_cor:", "Non", "ConsolidatedMember">>)]>>)

DurationDecl(id, start, end, scenario) ==
    [id |-> Some(id),
     period |-> Some([instant |-> None, startDate |-> Some(start), endDate |-> Some(end)]),
     scenario |-> scenario]

InstantDecl(id, date, scenario) ==
    [id |-> Some(id),
     period |-> Some([instant |-> Some(date), startDate |-> None, endDate |-> None]),
     scenario |-> scenario]

NoPeriodDecl(id) == [id |-> Some(id), period |-> None, scenario |-> None]

\* unit ids and measures
UJPY == <<"J", "P", "Y">>
UYen == <<"Y", "e", "n">>
UUSD == <<"U", "S", "D">>

UnitDecl(id, measure) == [id |-> id, measures |-> <<measure>>]

UnitDecls ==
    <<UnitDecl(UYen, <<"iso4217", ":", "J", "P", "Y">>),
      UnitDecl(UUSD, <<"iso4217", ":", "U", "S", "D">>)>>

Elem(local, ns, contextRef, unitRef, text) ==
    [local |-> local, ns |-> ns, contextRef |-> contextRef, unitRef |-> unitRef, text |-> text]

\* std: the texts of the AccountingStandardsDEI elements, in document order
Doc(dei, ctxDecls, units, elems) ==
    [nsmap |-> NsMap, dei |-> dei, ctxDecls |-> ctxDecls, units |-> units, elems |-> elems,
     std |-> <<Some("Japan GAAP")>>]

(***************************************************************************)
(* Specification SpecResolve: one call of _find_fact_in_contexts on the    *)
(* context map _build_contexts gives for the document.  The document has   *)
(* four contexts (c1 consolidated duration, c2 non-consolidated duration,  *)
(* c3 consolidated instant, c4 without a period) and at most MaxElems      *)
(* Revenue / NetSales elements.                                            *)
(***************************************************************************)
ResolveCtxDecls ==
    <<DurationDecl("c1", FY24Start, FY24End, None),
      DurationDecl("c2", FY24Start, FY24End, NonConsolidatedScenario),
      InstantDecl("c3", FY24End, ConsolidatedScenario),
      NoPeriodDecl("c4")>>

\* (contextRef, unitRef, text) of the elements; every text that parses
\* spells a different number
ElemVariants ==
    { <<Some("c1"), Some(UYen), Some(<<"1", "2", ",", "0", "0", "0">>)>>,
      <<Some("c2"), Some(UYen), Some(<<"(", "5", "0", "0", ")">>)>>,
      <<Some("c3"), Some(UYen), Some(<<"7">>)>>,
      <<Some("c4"), Some(UYen), Some(<<"1", "1">>)>>,
      <<None, Some(UYen), Some(<<"7", "1">>)>>,
      <<Some("c1"), Some(UUSD), Some(<<"7", "7">>)>>,
      <<Some("c1"), Some(UJPY), Some(<<"1", "7">>)>>,
      <<Some("c1"), None, Some(<<"7", "0">>)>>,
      <<Some("c1"), Some(UYen), Some(<<"a", "b", "c">>)>>,
      <<Some("c1"), Some(UYen), Some(<<"i", "n", "f">>)>> }

ResolveElems ==
    {Elem(n, NsMap.jppfs_cor, v[1], v[2], v[3]) : n \in {"Revenue", "NetSales"}, v \in ElemVariants}

ResolveTagLists ==
    {<<Tag("Revenue"), Tag("NetSales")>>, <<Tag("NetSales"), Tag("Revenue")>>}

\* (allowed_context_ids, need_duration) of the calls
ResolveTargets ==
    { <<(<<"c1">>), TRUE>>,
      <<(<<"c1", "c2">>), TRUE>>,
      <<(<<"c1", "c2", "c3", "c4">>), TRUE>>,
      <<(<<"c1", "c2", "c3", "c4">>), FALSE>> }

ResolveCall(dei, elems, tl, target, cu) ==
    [root |-> Doc(dei, ResolveCtxDecls, UnitDecls, elems),
     tag_list |-> tl, allowed_context_ids |-> target[1],
     need_duration |-> target[2], check_unit |-> cu]

\* every call on a document with an EDINETCodeDEI element, and one call on
\* each document without one or with an empty one
InitResolve ==
    /\ mode = "resolve"
    /\ pc = "call"
    /\ output = NoOutput
    /\ \E elems \in BoundedSeq(ResolveElems, MaxElems) :
          \/ \E tl \in ResolveTagLists, target \in ResolveTargets, cu \in BOOLEAN :
                input = ResolveCall("present", elems, tl, target, cu)
          \/ \E dei \in {"absent", "notext"} :
                input = ResolveCall(dei, elems, <<Tag("Revenue"), Tag("NetSales")>>,
                                    <<(<<"c1">>), TRUE>>, TRUE)

FindFact ==
    /\ mode = "resolve"
    /\ pc = "call"
    /\ LET b == _build_contexts(input.root)
       IN  output' = _find_fact_in_contexts(input.root, b.ctx_map, b.ns, input.tag_list,
                                            input.allowed_context_ids,
                                            input.need_duration, input.check_unit)
    /\ pc' = "done"
    /\ UNCHANGED <<mode, input>>

NextResolve == FindFact

SpecResolve == InitResolve /\ [][NextResolve]_vars

(***************************************************************************)
(* Specification SpecInv: one call of _calculate_inventories_value with    *)
(* the instant contexts i1 and i2 admissible.  Every component tag has at  *)
(* most one yen element, in i1 or i2 (InvPlaces); there is at most one     *)
(* element of a total tag; two elements that can never resolve (a          *)
(* Merchandise fact in a duration context, a WorkInProcess fact in US      *)
(* dollars) stand first in every document.                                 *)
(***************************************************************************)
InvCtxDecls ==
    <<InstantDecl("i1", FY24End, ConsolidatedScenario),
      InstantDecl("i2", FY24End, None),
      DurationDecl("d1", FY24Start, FY24End, None)>>

ForeignNs == "http://example.com/taxonomy/ext"

\* the text of the element of each tag; the sums of different sets of
\* components differ
InvText ==
    [InventoriesCAIFRS |-> <<"1", "1">>,
     Inventories |-> <<"1", "2">>,
     InventoriesNet |-> <<"1", "3">>,
     MerchandiseAndFinishedGoods |-> <<"7">>,
     Merchandise |-> <<"1", "0", "0">>,
     FinishedGoods |-> <<"5", "0">>,
     WorkInProcess |-> <<"1", ",", "0", "0", "0">>,
     SemiFinishedGoods |-> <<"2", ",", "0", "0", "0">>,
     RawMaterialsAndSupplies |-> <<"1", "0">>,
     RawMaterials |-> <<"2", "0", ",", "0", "0", "0">>,
     Supplies |-> <<"4", "0", ",", "0", "0", "0">>]

\* the component tags in the order their elements stand in the document
InvDocOrder ==
    <<"Supplies", "RawMaterials", "RawMaterialsAndSupplies", "SemiFinishedGoods",
      "WorkInProcess", "FinishedGoods", "Merchandise", "MerchandiseAndFinishedGoods">>

InvComponentNames == {InvDocOrder[i] : i \in 1..Len(InvDocOrder)}

InvElem(name, ns, ctx) == Elem(name, ns, Some(ctx), Some(UYen), Some(InvText[name]))

InvDecoys ==
    <<Elem("Merchandise", NsMap.jppfs_cor, Some("d1"), Some(UYen), Some(<<"9", "9", "9">>)),
      Elem("WorkInProcess", NsMap.jppfs_cor, Some("i1"), Some(UUSD), Some(<<"8", "8", "8">>))>>

\* the element of a total tag, if any
InvTotalChoices ==
    { <<>>,
      <<InvElem("InventoriesCAIFRS", NsMap.jpigp_cor, "i1")>>,
      <<InvElem("InventoriesCAIFRS", ForeignNs, "i1")>>,
      <<InvElem("Inventories", NsMap.jppfs_cor, "i2")>>,
      <<InvElem("Inventories", ForeignNs, "i1")>>,
      <<InvElem("Inventories", NsMap.jppfs_cor, "d1")>>,
      <<InvElem("InventoriesNet", NsMap.jppfs_cor, "i1")>>,
      <<Elem("InventoriesNet", NsMap.jppfs_cor, Some("i1"), Some(UYen), Some(<<"i", "n", "f">>))>> }

\* where the element of each component tag can stand
InvPlaces ==
    [MerchandiseAndFinishedGoods |-> {"none", "i1"},
     Merchandise |-> {"none", "i1", "i2"},
     FinishedGoods |-> {"none", "i1"},
     WorkInProcess |-> {"none", "i1", "i2"},
     SemiFinishedGoods |-> {"none", "i2"},
     RawMaterialsAndSupplies |-> {"none", "i1", "i2"},
     RawMaterials |-> {"none", "i2"},
     Supplies |-> {"none", "i1"}]

\* place: component tag -> "none", "i1" or "i2"
InvComponentElems(place) ==
    LET present == SelectSeq(InvDocOrder, LAMBDA n : place[n] # "none")
    IN  [i \in 1..Len(present) |-> InvElem(present[i], NsMap.jppfs_cor, place[present[i]])]

InvCall(total, place) ==
    [root |-> Doc("present", InvCtxDecls, UnitDecls,
                  InvDecoys \o total \o InvComponentElems(place)),
     allowed_context_ids |-> <<"i1", "i2">>,
     need_duration |-> FALSE,
     check_unit |-> TRUE]

InitInv ==
    /\ mode = "inv"
    /\ pc = "call"
    /\ output = NoOutput
    /\ \E total \in InvTotalChoices, place \in [InvComponentNames -> {"none", "i1", "i2"}] :
          /\ \A n \in InvComponentNames : place[n] \in InvPlaces[n]
          /\ input = InvCall(total, place)

CalculateInventories ==
    /\ mode = "inv"
    /\ pc = "call"
    /\ LET b == _build_contexts(input.root)
       IN  output' = _calculate_inventories_value(input.root, b.ctx_map, b.ns,
                                                  input.allowed_context_ids,
                                                  input.need_duration)
    /\ pc' = "done"
    /\ UNCHANGED <<mode, input>>

NextInv == CalculateInventories

SpecInv == InitInv /\ [][NextInv]_vars

(***************************************************************************)
(* Specification SpecFacts: one call of parse_financial_facts.  The        *)
(* document declares one of five context lists and holds at most MaxFacts  *)
(* yen facts, each a NetSales, CashAndDeposits or Merchandise element in   *)
(* one of the six contexts; the text of a fact tells its context.          *)
(***************************************************************************)
MaxFacts == 2

PriorInstantMinus1 == Date(2023, 3, 30)

FactsCtxDecls ==
    { <<DurationDecl("cd", FY24Start, FY24End, None),
        DurationDecl("nd", FY24Start, FY24End, NonConsolidatedScenario),
        InstantDecl("ci", FY24End, ConsolidatedScenario),
        InstantDecl("ni", FY24End, NonConsolidatedScenario),
        DurationDecl("pd", FY23Start, FY23End, ConsolidatedScenario),
        InstantDecl("pi", PriorInstantMinus1, NonConsolidatedScenario)>>,
      <<DurationDecl("cd", FY24Start, FY24End, None),
        InstantDecl("ci", FY24End, ConsolidatedScenario),
        DurationDecl("pd", FY23Start, FY23End, ConsolidatedScenario)>>,
      <<DurationDecl("nd", FY24Start, FY24End, NonConsolidatedScenario),
        InstantDecl("ni", FY24End, NonConsolidatedScenario),
        InstantDecl("pi", PriorInstantMinus1, NonConsolidatedScenario)>>,
      <<InstantDecl("pi", PriorInstantMinus1, NonConsolidatedScenario),
        DurationDecl("pd", FY23Start, FY23End, ConsolidatedScenario),
        InstantDecl("ni", FY24End, NonConsolidatedScenario),
        DurationDecl("cd", FY24Start, FY24End, None)>>,
      <<>> }

FactText ==
    [cd |-> <<"1", "0", "0", "0", "0", "0", "0">>,
     nd |-> <<"5", "0", "0", "0", "0", "0">>,
     ci |-> <<"7">>,
     ni |-> <<"7", "0">>,
     pd |-> <<"1", "7">>,
     pi |-> <<"7", "1">>]

FactElems ==
    {Elem(n, NsMap.jppfs_cor, Some(c), Some(UYen), Some(FactText[c])) :
        n \in {"NetSales", "CashAndDeposits", "Merchandise"}, c \in DOMAIN FactText}

\* every document with an EDINETCodeDEI element, and the documents of at
\* most one fact without one
InitFacts ==
    /\ mode = "facts"
    /\ pc = "call"
    /\ output = NoOutput
    /\ \E decls \in FactsCtxDecls :
          \/ \E elems \in BoundedSeq(FactElems, MaxFacts) :
                input = [root |-> Doc("present", decls, UnitDecls, elems)]
          \/ \E elems \in BoundedSeq(FactElems, 1) :
                input = [root |-> Doc("absent", decls, UnitDecls, elems)]

ParseFinancialFacts ==
    /\ mode = "facts"
    /\ pc = "call"
    /\ output' = parse_financial_facts(input.root)
    /\ pc' = "done"
    /\ UNCHANGED <<mode, input>>

NextFacts == ParseFinancialFacts

SpecFacts == InitFacts /\ [][NextFacts]_vars

(***************************************************************************)
(* Specification SpecPick: one call of pick_recent_annual_reports for      *)
(* company E00001 on an index of at most MaxRows rows; docID is the        *)
(* position of the row in the index.                                       *)
(***************************************************************************)
MaxRows == 3

FY22End == Date(2022, 3, 31)
NoSuchDay == Date(2024, 2, 30)

Filing(code, docType, xbrl, withdrawn, disclosure, periodEnd, submit) ==
    [edinetCode |-> code, docTypeCode |-> docType, xbrlFlag |-> xbrl,
     withdrawalStatus |-> withdrawn, disclosureStatus |-> disclosure,
     periodEnd |-> periodEnd, submitDateTime |-> submit]

\* annual reports (120) and corrections (130) of the company that pass the
\* filter, with and without a submission timestamp or a period end
GoodFilings ==
    {Filing("E00001", t, "1", "0", "0", Some(d), Some(ts)) :
        t \in {"120", "130"}, d \in {FY24End, FY23End}, ts \in {1, 2}}
    \cup {Filing("E00001", t, "1", "0", "0", Some(FY24End), None) : t \in {"120", "130"}}
    \cup {Filing("E00001", "120", "1", "0", "0", Some(FY22End), Some(2)),
          Filing("E00001", "120", "1", "0", "0", Some(FY22End), Some(0)),
          Filing("E00001", "120", "1", "0", "0", Some(NoSuchDay), Some(2)),
          Filing("E00001", "130", "1", "0", "0", None, Some(2))}

\* filings the filter drops: each would win its period if it were kept
OtherFilings ==
    {Filing("E00002", "130", "1", "0", "0", Some(FY24End), Some(3)),
     Filing("E00001", "140", "1", "0", "0", Some(FY24End), Some(3)),
     Filing("E00001", "130", "0", "0", "0", Some(FY24End), Some(3)),
     Filing("E00001", "130", "1", "1", "0", Some(FY24End), Some(3)),
     Filing("E00001", "130", "1", "0", "1", Some(FY24End), Some(3))}

\* the DataFrame of the filings, docID being the position
Index(filings) ==
    [i \in 1..Len(filings) |->
        [docID |-> i,
         edinetCode |-> filings[i].edinetCode,
         docTypeCode |-> filings[i].docTypeCode,
         xbrlFlag |-> filings[i].xbrlFlag,
         withdrawalStatus |-> filings[i].withdrawalStatus,
         disclosureStatus |-> filings[i].disclosureStatus,
         periodEnd |-> filings[i].periodEnd,
         submitDateTime |-> filings[i].submitDateTime]]

InitPick ==
    /\ mode = "pick"
    /\ pc = "call"
    /\ output = NoOutput
    /\ \E filings \in BoundedSeq(GoodFilings \cup OtherFilings, MaxRows) :
          input = [df_idx |-> Index(filings), edinet_code |-> "E00001"]

PickRecentAnnualReports ==
    /\ mode = "pick"
    /\ pc = "call"
    /\ output' \in pick_recent_annual_reports(input.df_idx, input.edinet_code)
    /\ pc' = "done"
    /\ UNCHANGED <<mode, input>>

NextPick == PickRecentAnnualReports

SpecPick == InitPick /\ [][NextPick]_vars

(***************************************************************************)
(* Specification SpecExtract: one call of extract_financials for the       *)
(* filing of docID 1 with period end FY24End.  EDINET answers with         *)
(* nothing, with empty bytes, with bytes that are not well-formed or with  *)
(* a well-formed instance holding at most MaxFacts facts in the six        *)
(* contexts of SpecFacts.                                                  *)
(***************************************************************************)
Open(name) == [kind |-> "open", name |-> name]
Close(name) == [kind |-> "close", name |-> name]

WellFormedMarkup == <<Open("xbrl"), Open("context"), Close("context"), Close("xbrl")>>

\* an unclosed root, a mismatched close, a close without an open and a
\* second root
MalformedMarkups ==
    { <<Open("xbrl"), Open("context"), Close("context")>>,
      <<Open("xbrl"), Close("context")>>,
      <<Close("xbrl")>>,
      <<Open("xbrl"), Close("xbrl"), Open("xbrl"), Close("xbrl")>> }

UShares == <<"s", "h", "a", "r", "e", "s">>

ExtractUnitDecls ==
    UnitDecls \o <<UnitDecl(UShares, <<"x", "b", "r", "l", "i", ":", "s", "h", "a", "r", "e", "s">>)>>

\* facts of the concepts of Calls; the text of a fact tells its context
ExtractElems ==
    { Elem("NetSales", NsMap.jppfs_cor, Some("cd"), Some(UJPY), Some(FactText.cd)),
      Elem("NetSales", NsMap.jppfs_cor, Some("nd"), Some(UJPY), Some(FactText.nd)),
      Elem("OperatingRevenue", NsMap.jppfs_cor, Some("nd"), Some(UYen), Some(FactText.nd)),
      Elem("NetSales", NsMap.jppfs_cor, Some("pd"), Some(UJPY), Some(FactText.pd)),
      Elem("NetSales", NsMap.jppfs_cor, Some("cd"), Some(UYen), Some(<<"i", "n", "f">>)),
      Elem("CurrentAssets", NsMap.jppfs_cor, Some("ci"), Some(UYen), Some(FactText.ci)),
      Elem("Liabilities", NsMap.jppfs_cor, Some("ni"), Some(UYen), Some(FactText.ni)),
      Elem("CashAndDeposits", NsMap.jppfs_cor, Some("ci"), Some(UYen), Some(FactText.ci)),
      Elem("CashAndDeposits", NsMap.jppfs_cor, Some("ni"), Some(UYen), Some(FactText.ni)),
      Elem("TotalNumberIssuedShares", NsMap.jppfs_cor, Some("ni"), Some(UShares), Some(FactText.ni)),
      Elem("ProfitLoss", NsMap.jppfs_cor, Some("cd"), Some(UYen), Some(FactText.cd)) }

ExtractCtxDecls ==
    <<DurationDecl("cd", FY24Start, FY24End, None),
      DurationDecl("nd", FY24Start, FY24End, NonConsolidatedScenario),
      InstantDecl("ci", FY24End, ConsolidatedScenario),
      InstantDecl("ni", FY24End, NonConsolidatedScenario),
      DurationDecl("pd", FY23Start, FY23End, ConsolidatedScenario),
      InstantDecl("pi", PriorInstantMinus1, NonConsolidatedScenario)>>

\* a root element that binds no prefix but its own
BareNsMap == [jpdei_cor |-> NsMap.jpdei_cor]

\* the instance with the facts
Instance(dei, nsmap, elems) ==
    [nsmap |-> nsmap, dei |-> dei, ctxDecls |-> ExtractCtxDecls,
     units |-> ExtractUnitDecls, elems |-> elems, std |-> <<Some("Japan GAAP")>>]

XbrlBytes(markup, root) == [markup |-> markup, root |-> root]

\* the row pick_recent_annual_reports returns for the filing
Report(docID, periodEnd, periodStart) ==
    [docID |-> docID, periodEnd_str |-> periodEnd, periodStart |-> periodStart]

ExtractCall(fetched, periodStart, consolidated_required) ==
    [report |-> Report(1, FY24End, periodStart),
     edinet |-> <<fetched>>,
     consolidated_required |-> consolidated_required]

\* every instance with an EDINETCodeDEI element and the usual prefixes under
\* well-formed bytes; the instances of at most one fact under every kind of
\* bytes, without the element or without the prefixes; and no bytes at all
InitExtract ==
    /\ mode = "extract"
    /\ pc = "call"
    /\ output = NoOutput
    /\ \E cr \in BOOLEAN, ps \in {None, Some(FY24Start)} :
          \/ \E elems \in BoundedSeq(ExtractElems, MaxFacts) :
                input = ExtractCall(Some(XbrlBytes(WellFormedMarkup,
                                                   Instance("present", NsMap, elems))), ps, cr)
          \/ \E elems \in BoundedSeq(ExtractElems, 1),
                markup \in MalformedMarkups \cup {<<>>, WellFormedMarkup},
                dei \in {"present", "absent"}, nsmap \in {NsMap, BareNsMap} :
                input = ExtractCall(Some(XbrlBytes(markup, Instance(dei, nsmap, elems))), ps, cr)
          \/ input = ExtractCall(None, ps, cr)

ExtractFinancials ==
    /\ mode = "extract"
    /\ pc = "call"
    /\ output' = extract_financials(input.report, input.edinet, input.consolidated_required)
    /\ pc' = "done"
    /\ UNCHANGED <<mode, input>>

NextExtract == ExtractFinancials

SpecExtract == InitExtract /\ [][NextExtract]_vars

(***************************************************************************)
(* Specification SpecTwice: parse_financial_facts (with _build_contexts)   *)
(* is run twice on one document; output.first and output.second are the    *)
(* results.  The documents are those of SpecFacts with the six contexts,   *)
(* and those of at most one fact with the other context lists or without   *)
(* an EDINETCodeDEI element.                                               *)
(***************************************************************************)
InitTwice ==
    /\ mode = "twice"
    /\ pc = "call"
    /\ output = NoOutput
    /\ \/ \E elems \in BoundedSeq(FactElems, MaxFacts) :
             input = [root |-> Doc("present", ExtractCtxDecls, UnitDecls, elems)]
       \/ \E decls \in FactsCtxDecls, elems \in BoundedSeq(FactElems, 1),
             dei \in {"present", "absent"} :
             input = [root |-> Doc(dei, decls, UnitDecls, elems)]

FirstCall ==
    /\ mode = "twice"
    /\ pc = "call"
    /\ output' = [outcome |-> "first", first |-> Extraction(input.root)]
    /\ input' = [root |-> AfterCall(input.root)]
    /\ pc' = "again"
    /\ UNCHANGED mode

SecondCall ==
    /\ mode = "twice"
    /\ pc = "again"
    /\ output' = [outcome |-> "second", first |-> output.first,
                  second |-> Extraction(input.root)]
    /\ input' = [root |-> AfterCall(input.root)]
    /\ pc' = "done"
    /\ UNCHANGED mode

NextTwice == FirstCall \/ SecondCall

SpecTwice == InitTwice /\ [][NextTwice]_vars

(***************************************************************************)
(* Specification SpecContexts: _build_contexts on a document of at most    *)
(* MaxDecls context declarations, followed by one resolver call that       *)
(* admits every declared id.  A declaration has the id of its position, an *)
(* empty id or none; no period, an instant, or a duration with or without  *)
(* its children.  Each declaration with an id is referenced by one         *)
(* NetSales fact.                                                          *)
(***************************************************************************)
MaxDecls == 2

PeriodShapes ==
    { None,
      Some([instant |-> Some(FY24End), startDate |-> None, endDate |-> None]),
      Some([instant |-> Some(FY24End), startDate |-> Some(FY24Start), endDate |-> Some(FY23End)]),
      Some([instant |-> None, startDate |-> Some(FY24Start), endDate |-> Some(FY24End)]),
      Some([instant |-> None, startDate |-> None, endDate |-> Some(FY24End)]),
      Some([instant |-> None, startDate |-> Some(FY24Start), endDate |-> None]),
      Some([instant |-> None, startDate |-> None, endDate |-> None]) }

IdOfPosition == <<"k1", "k2", "k3">>

\* the ids a declaration at position n can carry
IdsAt(n) == {None, Some(""), Some(IdOfPosition[n])}

CtxDeclsOfLen(n) ==
    {d \in [1..n -> [id : UNION {IdsAt(k) : k \in 1..n}, period : PeriodShapes,
                     scenario : {None, NonConsolidatedScenario}]] :
        \A k \in 1..n : d[k].id \in IdsAt(k)}

\* one NetSales fact for each declaration that has an id, in document order
FactsReferring(decls) ==
    LET withId == SelectSeq(decls, LAMBDA c : ~IsNone(c.id))
    IN  [k \in 1..Len(withId) |->
            Elem("NetSales", NsMap.jppfs_cor, withId[k].id, Some(UJPY), Some(<<"7">>))]

InitContexts ==
    /\ mode = "contexts"
    /\ pc = "call"
    /\ output = NoOutput
    /\ \E n \in 0..MaxDecls :
          \E decls \in CtxDeclsOfLen(n), nd \in BOOLEAN :
             input = [root |-> Doc("present", decls, UnitDecls, FactsReferring(decls)),
                      tag_list |-> <<Tag("NetSales")>>,
                      allowed_context_ids |-> <<"", "k1", "k2", "k3">>,
                      need_duration |-> nd]

BuildContexts ==
    /\ mode = "contexts"
    /\ pc = "call"
    /\ LET b == _build_contexts(input.root)
       IN  output' = [outcome |-> "returned",
                      contexts |-> b.ctx_map,
                      ns |-> b.ns,
                      found |-> _find_fact_in_contexts(input.root, b.ctx_map, b.ns,
                                                       input.tag_list,
                                                       input.allowed_context_ids,
                                                       input.need_duration, TRUE)]
    /\ pc' = "done"
    /\ UNCHANGED <<mode, input>>

NextContexts == BuildContexts

SpecContexts == InitContexts /\ [][NextContexts]_vars

(***************************************************************************)
(* Specification SpecAnalyze: one call of analyze_company_latest for       *)
(* company E00001 on an index of at most two filings; docID is the         *)
(* position of the row, and EDINET holds one answer for each docID.        *)
(***************************************************************************)
\* annual reports of two years, a correction, and a report of another
\* company
AnalyzeFilings ==
    { Filing("E00001", "120", "1", "0", "0", Some(FY24End), Some(2)),
      Filing("E00001", "120", "1", "0", "0", Some(FY23End), Some(1)),
      Filing("E00001", "130", "1", "0", "0", Some(FY23End), Some(2)),
      Filing("E00002", "120", "1", "0", "0", Some(FY24End), Some(2)) }

SoundElems ==
    <<Elem("CurrentAssets", NsMap.jppfs_cor, Some("ci"), Some(UYen), Some(FactText.ni)),
      Elem("Liabilities", NsMap.jppfs_cor, Some("ci"), Some(UYen), Some(FactText.ci)),
      Elem("NetCashProvidedByUsedInOperatingActivities", NsMap.jppfs_cor, Some("cd"),
           Some(UYen), Some(FactText.pd)),
      Elem("NetCashProvidedByUsedInOperatingActivities", NsMap.jppfs_cor, Some("pd"),
           Some(UYen), Some(FactText.ci))>>

InfElems ==
    <<Elem("NetSales", NsMap.jppfs_cor, Some("cd"), Some(UYen), Some(<<"i", "n", "f">>))>>

\* an instance that also has an instant context at the end of the prior
\* year (pe), with inventories and receivables for both year ends, current
\* assets without liabilities, and other operating cash flows
GrowthElems ==
    <<Elem("CurrentAssets", NsMap.jppfs_cor, Some("ci"), Some(UYen), Some(FactText.ni)),
      Elem("Inventories", NsMap.jppfs_cor, Some("ci"), Some(UYen), Some(FactText.ni)),
      Elem("Inventories", NsMap.jppfs_cor, Some("pe"), Some(UYen), Some(FactText.ci)),
      Elem("AccountsReceivableTrade", NsMap.jppfs_cor, Some("ci"), Some(UYen), Some(FactText.ci)),
      Elem("AccountsReceivableTrade", NsMap.jppfs_cor, Some("pe"), Some(UYen), Some(FactText.ci)),
      Elem("NetCashProvidedByUsedInOperatingActivities", NsMap.jppfs_cor, Some("cd"),
           Some(UYen), Some(FactText.ci)),
      Elem("NetCashProvidedByUsedInOperatingActivities", NsMap.jppfs_cor, Some("pd"),
           Some(UYen), Some(FactText.ci))>>

GrowthInstance ==
    [Instance("present", NsMap, GrowthElems) EXCEPT
        !.ctxDecls = ExtractCtxDecls \o <<InstantDecl("pe", FY23End, None)>>]

\* what EDINET answers for a docID: nothing, bytes cut short, an instance
\* with facts, an instance whose root binds no xbrli prefix, an instance
\* without EDINETCodeDEI, an instance with a non-finite revenue, an instance
\* with facts for both year ends
Answers ==
    { None,
      Some(XbrlBytes(WellFormedMarkup, GrowthInstance)),
      Some(XbrlBytes(<<Open("xbrl"), Open("context"), Close("context")>>,
                     Instance("present", NsMap, SoundElems))),
      Some(XbrlBytes(WellFormedMarkup, Instance("present", NsMap, SoundElems))),
      Some(XbrlBytes(WellFormedMarkup, Instance("present", BareNsMap, SoundElems))),
      Some(XbrlBytes(WellFormedMarkup, Instance("absent", NsMap, SoundElems))),
      Some(XbrlBytes(WellFormedMarkup, Instance("present", NsMap, InfElems))) }

\* the master list: the company with its consolidation column, or a list
\* without the company
MasterLists ==
    {[E00001 |-> [consolidated |-> c, ticker |-> t, name |-> "A"]] :
        c \in {"yes", "no", "nan"}, t \in {None, Some(<<"1", "3", "0", "1", "0">>)}}
    \cup {[E00009 |-> [consolidated |-> "yes", ticker |-> None, name |-> "Z"]]}

InitAnalyze ==
    /\ mode = "analyze"
    /\ pc = "call"
    /\ output = NoOutput
    /\ \E filings \in BoundedSeq(AnalyzeFilings, 2), master \in MasterLists :
          \E edinet \in [1..Len(filings) -> Answers] :
             input = [code |-> "E00001", edinet |-> edinet, master_df |-> master,
                      doc_index_df |-> Index(filings)]

AnalyzeCompanyLatest ==
    /\ mode = "analyze"
    /\ pc = "call"
    /\ output' \in analyze_company_latest(input.code, input.edinet, input.master_df,
                                          input.doc_index_df)
    /\ pc' = "done"
    /\ UNCHANGED <<mode, input>>

NextAnalyze == AnalyzeCompanyLatest

SpecAnalyze == InitAnalyze /\ [][NextAnalyze]_vars

(***************************************************************************)
(* Specification SpecBatch: the batch loop of main for five companies,     *)
(* one more than the pool has workers.  Each company has one filing in the *)
(* index (docID is its position).  For the first two the filing is         *)
(* either readable, withdrawn (no data) or answered by EDINET with an      *)
(* instance that makes the analysis raise; the database raises for at most *)
(* one company.  The worker threads finish in any order.                   *)
(* SpecBatchFair adds that the threads do not all stop while one of them   *)
(* can take a step: a worker thread runs its task to the end (the requests *)
(* of the analysis have timeouts) and main handles a completed future.     *)
(***************************************************************************)
BatchCodes == <<"E00001", "E00002", "E00003", "E00004", "E00005">>

CompanyKinds == {"data", "nodata", "raises"}

BatchMaster ==
    [c \in {BatchCodes[i] : i \in 1..Len(BatchCodes)} |->
        [consolidated |-> "yes", ticker |-> None, name |-> c]]

BatchIndex(kinds) ==
    Index([i \in 1..Len(BatchCodes) |->
              Filing(BatchCodes[i], "120", "1", IF kinds[i] = "nodata" THEN "1" ELSE "0", "0",
                     Some(FY24End), Some(i))])

BatchEdinet(kinds) ==
    [i \in 1..Len(BatchCodes) |->
        Some(XbrlBytes(WellFormedMarkup,
                       Instance("present", IF kinds[i] = "raises" THEN BareNsMap ELSE NsMap,
                                SoundElems)))]

EmptyDb ==
    [companies |-> {}, filings |-> {}, financial_snapshots |-> {}, company_screening |-> {}]

InitBatch ==
    /\ mode = "batch"
    /\ pc = "loop"
    /\ \E k1, k2 \in CompanyKinds, failing \in {"", "E00004"},
          failAt \in {"filings", "company_screening"} :
          /\ (failing = "" => failAt = "filings")
          /\ input = [codes |-> BatchCodes,
                      master_df |-> BatchMaster,
                      doc_index_df |-> BatchIndex(<<k1, k2, "data", "data", "data">>),
                      edinet |-> BatchEdinet(<<k1, k2, "data", "data", "data">>),
                      db_failing |-> failing,
                      db_failAt |-> failAt]
    /\ output = [outcome |-> "batch",
                 futures |-> [c \in {BatchCodes[i] : i \in 1..Len(BatchCodes)} |->
                                 [state |-> "pending",
                                  call |-> analyze_company_latest(c, input.edinet,
                                               input.master_df, input.doc_index_df),
                                  result |-> NoOutput]],
                 yielded |-> <<>>,
                 completed_count |-> 0,
                 db |-> EmptyDb,
                 saved |-> {},
                 skipped |-> {},
                 errors |-> {}]

\* a worker thread takes the oldest pending task; at most MAX_WORKERS run
StartWorker ==
    /\ mode = "batch"
    /\ pc \in {"loop", "crashed"}
    /\ Cardinality({c \in DOMAIN output.futures : output.futures[c].state = "running"})
          < MAX_WORKERS
    /\ \E i \in 1..Len(input.codes) :
          /\ output.futures[input.codes[i]].state = "pending"
          /\ \A j \in 1..(i - 1) : output.futures[input.codes[j]].state # "pending"
          /\ output' = [output EXCEPT !.futures[input.codes[i]].state = "running"]
    /\ UNCHANGED <<mode, pc, input>>

\* a running analyze_company_latest returns or raises; the future keeps it
FinishWorker ==
    /\ mode = "batch"
    /\ pc \in {"loop", "crashed"}
    /\ \E c \in DOMAIN output.futures :
          /\ output.futures[c].state = "running"
          /\ \E r \in output.futures[c].call :
                output' = [output EXCEPT !.futures[c].state = "finished",
                                         !.futures[c].result = r]
    /\ UNCHANGED <<mode, pc, input>>

\* as_completed yields a finished future and main runs the loop body on it
HandleCompleted ==
    /\ mode = "batch"
    /\ pc = "loop"
    /\ \E c \in DOMAIN output.futures :
          /\ output.futures[c].state = "finished"
          /\ ~InList(c, output.yielded)
          /\ \E it \in {Iteration(output, c, IF input.db_failing = c THEN input.db_failAt
                                               ELSE "")} :
                /\ output' = it.batch
                /\ pc' = AfterIteration(it.raised)
    /\ UNCHANGED <<mode, input>>

\* every future was yielded: the loop and the with block end
LeaveLoop ==
    /\ mode = "batch"
    /\ pc = "loop"
    /\ Len(output.yielded) = Len(input.codes)
    /\ pc' = "done"
    /\ UNCHANGED <<mode, input, output>>

NextBatch == StartWorker \/ FinishWorker \/ HandleCompleted \/ LeaveLoop

SpecBatch == InitBatch /\ [][NextBatch]_vars

SpecBatchFair == SpecBatch /\ WF_vars(NextBatch)

(***************************************************************************)
(* Specification SpecScope: _build_contexts on a document of two contexts, *)
(* an instant and a duration, each with no scenario or a scenario of up to *)
(* two explicit members.  A member is on the consolidation axis (under the *)
(* jppfs_cor prefix or another one), on another axis, or has no dimension  *)
(* attribute; its text names the consolidated member, the non-consolidated *)
(* member, another member, or is missing.  The id of the second context    *)
(* spells "NonConsolidatedMember" whatever its scenario says.              *)
(***************************************************************************)
Member(dimension, text) == [dimension |-> dimension, text |-> text]

ScopeMembers ==
    { Member(Some(ConsolidationAxis), Some(<<"jppfs_cor:", "ConsolidatedMember">>)),
      Member(Some(ConsolidationAxis), Some(<<"jppfs_cor:", "Non", "ConsolidatedMember">>)),
      Member(Some(ConsolidationAxis), None),
      Member(Some(<<"jpcrp_cor:", "Sub", "ConsolidatedOrNonConsolidatedAxis">>),
             Some(<<"jpcrp_cor:", "Sub", "Non", "ConsolidatedMember">>)),
      Member(Some(<<"jpcrp_cor:", "OperatingSegmentsAxis">>),
             Some(<<"jppfs_cor:", "Non", "ConsolidatedMember">>)),
      Member(Some(<<"jppfs_cor:", "ConsolidatedOrNonConsolidatedAxis", "Extended">>),
             Some(<<"jppfs_cor:", "Non", "ConsolidatedMember">>)),
      Member(None, Some(<<"jppfs_cor:", "Non", "ConsolidatedMember">>)),
      Member(Some(ConsolidationAxis), Some(<<"jppfs_cor:", "Non", "ConsolidatedMember", " ">>)) }

ScopeScenarios ==
    {None, Some(<<>>)}
    \cup {Some(<<m>>) : m \in ScopeMembers}
    \cup {Some(<<m1, m2>>) : m1, m2 \in ScopeMembers}

InitScope ==
    /\ mode = "scope"
    /\ pc = "call"
    /\ output = NoOutput
    /\ \E s1, s2 \in ScopeScenarios :
          input = [root |-> Doc("present",
                               <<InstantDecl("CurrentYearInstant", FY24End, s1),
                                 DurationDecl("CurrentYearDuration_NonConsolidatedMember",
                                              FY24Start, FY24End, s2)>>,
                               UnitDecls, <<>>)]

BuildScopes ==
    /\ mode = "scope"
    /\ pc = "call"
    /\ \E b \in {_build_contexts(input.root)} :
          output' = [outcome |-> "returned", contexts |-> b.ctx_map, ns |-> b.ns]
    /\ pc' = "done"
    /\ UNCHANGED <<mode, input>>

NextScope == BuildScopes

SpecScope == InitScope /\ [][NextScope]_vars

(***************************************************************************)
(* Specification SpecUnit: _unit_is_jpy on a document of at most two unit  *)
(* declarations.  A unit has the id Yen or USD (both units may carry the   *)
(* same id) and no, one or two measures (two for a unit that divides, yen  *)
(* per share).  The reference is absent, empty, a spelling of JPY, the id  *)
(* of a unit, an id no unit has, or a text with apostrophes.               *)
(***************************************************************************)
UnitMeasures ==
    { <<"J", "P", "Y">>,
      <<"iso4217", ":", "J", "P", "Y">>,
      <<"iso4217", ":", "j", "p", "Y">>,
      <<"iso4217", ":", "U", "S", "D">>,
      <<"x", "J", "P", "Y">>,
      <<"xbrli", ":", "s", "h", "a", "r", "e", "s">> }

MeasureLists ==
    {<<>>} \cup {<<m>> : m \in UnitMeasures} \cup {<<m1, m2>> : m1, m2 \in UnitMeasures}

UnitRefs ==
    { None, Some(<<>>), Some(UJPY), Some(JpyLower), Some(<<"J", "p", "y">>),
      Some(<<" ", "J", "P", "Y">>), Some(UYen), Some(UUSD), Some(<<"E", "U", "R">>),
      Some(<<"i", "t", "'", "s">>), Some(InjectedRef) }

InitUnit ==
    /\ mode = "unit"
    /\ pc = "call"
    /\ output = NoOutput
    /\ \E ref \in UnitRefs :
          \/ input = [root |-> Doc("present", <<>>, <<>>, <<>>), unit_ref |-> ref]
          \/ \E id1 \in {UYen, UUSD}, ms1 \in MeasureLists :
                input = [root |-> Doc("present", <<>>, <<[id |-> id1, measures |-> ms1]>>, <<>>),
                         unit_ref |-> ref]
          \/ \E id1, id2 \in {UYen, UUSD}, ms1 \in MeasureLists, m2 \in UnitMeasures :
                input = [root |-> Doc("present", <<>>,
                                     <<[id |-> id1, measures |-> ms1],
                                       [id |-> id2, measures |-> <<m2>>]>>, <<>>),
                         unit_ref |-> ref]

UnitIsJpy ==
    /\ mode = "unit"
    /\ pc = "call"
    /\ output' = _unit_is_jpy(input.root, input.unit_ref)
    /\ pc' = "done"
    /\ UNCHANGED <<mode, input>>

NextUnit == UnitIsJpy

SpecUnit == InitUnit /\ [][NextUnit]_vars

(***************************************************************************)
(* Specification SpecStandard: the accounting standard in the result of    *)
(* parse_financial_facts (extractor "comprehensive") and of                *)
(* extract_financials (extractor "targeted") on one well-formed document.  *)
(* The document has no, one or two AccountingStandardsDEI elements, the    *)
(* first possibly without text; no context, only a context without a      *)
(* period, or the six contexts of SpecExtract; at most one fact; and an    *)
(* EDINETCodeDEI element or none.                                          *)
(***************************************************************************)
StandardTexts ==
    { <<>>, <<Some("IFRS")>>, <<None>>, <<Some("Japan GAAP"), Some("IFRS")>>,
      <<None, Some("US GAAP")>> }

StandardCtxDecls == {<<>>, <<NoPeriodDecl("cd")>>, ExtractCtxDecls}

InitStandard ==
    /\ mode = "standard"
    /\ pc = "call"
    /\ output = NoOutput
    /\ \E extractor \in {"comprehensive", "targeted"}, std \in StandardTexts,
          decls \in StandardCtxDecls, dei \in {"present", "absent"},
          elems \in BoundedSeq(ExtractElems, 1) :
          input = [extractor |-> extractor,
                   root |-> [nsmap |-> NsMap, dei |-> dei, ctxDecls |-> decls,
                             units |-> ExtractUnitDecls, elems |-> elems, std |-> std]]

\* parse_financial_facts(root); standard is None when the result has no
\* key accounting_standard, else Some(value of the key)
ComprehensiveStandard ==
    /\ mode = "standard"
    /\ pc = "call"
    /\ input.extractor = "comprehensive"
    /\ \E r \in {parse_financial_facts(input.root)} :
          output' = [outcome |-> r.outcome,
                     standard |-> IF r.outcome = "returned"
                                       /\ "accounting_standard" \in DOMAIN r.results
                                  THEN Some(r.results["accounting_standard"])
                                  ELSE None]
    /\ pc' = "done"
    /\ UNCHANGED <<mode, input>>

\* extract_financials on the filing whose document EDINET answers with the
\* root; standard as above for the key accountingStandard
TargetedStandard ==
    /\ mode = "standard"
    /\ pc = "call"
    /\ input.extractor = "targeted"
    /\ \E r \in {extract_financials(Report(1, FY24End, None),
                                     <<Some(XbrlBytes(WellFormedMarkup, input.root))>>, TRUE)} :
          output' = [outcome |-> r.outcome,
                     standard |-> IF r.outcome = "returned"
                                       /\ "accountingStandard" \in DOMAIN r.details
                                  THEN Some(r.details["accountingStandard"])
                                  ELSE None]
    /\ pc' = "done"
    /\ UNCHANGED <<mode, input>>

NextStandard == ComprehensiveStandard \/ TargetedStandard

SpecStandard == InitStandard /\ [][NextStandard]_vars

(***************************************************************************)
(* Specification SpecRate: the threads of the pool call list_documents and *)
(* fetch_xbrl_instance, and every call that reaches EDINET passes          *)
(* _rate_limit first.  Times are in milliseconds.  output.clock is what    *)
(* time.time() returns; it never goes back and advances by one of          *)
(* ClockSteps at a time, between any two steps of the threads.             *)
(* time.sleep(d) returns when at least d has passed since it was called.   *)
(* output.line[t] is the line of edinet_client.py thread t is at, 0 when   *)
(* it is idle; the pool gives a call to its first idle thread.             *)
(* output.releases is the history of the values line 38 wrote, each with   *)
(* the function that called and whether the caller had slept.              *)
(***************************************************************************)
\* config.MIN_INTERVAL_SEC, 0.6 seconds
MIN_INTERVAL_SEC == 600

\* the calls the pool makes in one run
MaxCalls == 3

\* the clock stops here
MaxClock == 3000

ClockSteps == {300}

Threads == 1..MAX_WORKERS

\* lines 35-37: how long the caller sleeps, 0 when it does not
SleepFor_never(now, last_req_at) == 0

SleepFor(now, last_req_at) ==
    IF now - last_req_at < MIN_INTERVAL_SEC
    THEN MIN_INTERVAL_SEC - (now - last_req_at)
    ELSE 0

FirstIdle(t) ==
    /\ output.line[t] = 0
    /\ \A u \in 1..(t - 1) : output.line[u] # 0

InitRate ==
    /\ mode = "rate"
    /\ pc = "serving"
    /\ input = [start |-> 2 * MIN_INTERVAL_SEC]
    /\ output = [outcome |-> "rate",
                 clock |-> input.start,
                 _RATE_LOCK |-> 0,
                 _LAST_REQ_AT |-> 0,
                 line |-> [t \in Threads |-> 0],
                 op |-> [t \in Threads |-> ""],
                 now |-> [t \in Threads |-> 0],
                 wake |-> [t \in Threads |-> 0],
                 slept |-> [t \in Threads |-> FALSE],
                 calls |-> 0,
                 releases |-> <<>>]

\* time passes
Tick ==
    /\ mode = "rate"
    /\ output.clock < MaxClock
    /\ \E d \in ClockSteps :
          output' = [output EXCEPT !.clock = output.clock + d]
    /\ UNCHANGED <<mode, pc, input>>

\* list_documents finds the day in its cache and returns at line 51
CacheHit ==
    /\ mode = "rate"
    /\ output.calls < MaxCalls
    /\ \E t \in Threads :
          /\ FirstIdle(t)
          /\ output' = [output EXCEPT !.calls = output.calls + 1]
    /\ UNCHANGED <<mode, pc, input>>

\* list_documents (line 58) or fetch_xbrl_instance (line 85) calls
\* _rate_limit and reaches the with statement of line 33
CallRateLimit ==
    /\ mode = "rate"
    /\ output.calls < MaxCalls
    /\ \E t \in Threads, f \in {"list_documents", "fetch_xbrl_instance"} :
          /\ FirstIdle(t)
          /\ output' = [output EXCEPT !.calls = output.calls + 1,
                                      !.op[t] = f,
                                      !.line[t] = 33]
    /\ UNCHANGED <<mode, pc, input>>

\* line 33: one of the threads waiting for the free lock gets it
Acquire ==
    /\ mode = "rate"
    /\ output._RATE_LOCK = 0
    /\ \E t \in Threads :
          /\ output.line[t] = 33
          /\ output' = [output EXCEPT !._RATE_LOCK = t, !.line[t] = 34]
    /\ UNCHANGED <<mode, pc, input>>

\* lines 34-36: read the clock and decide whether to sleep
ReadNow ==
    /\ mode = "rate"
    /\ \E t \in Threads :
          /\ output.line[t] = 34
          /\ output' = [output EXCEPT
                !.now[t] = output.clock,
                !.line[t] = IF SleepFor(output.clock, output._LAST_REQ_AT) > 0
                            THEN 37 ELSE 38]
    /\ UNCHANGED <<mode, pc, input>>

\* line 37: time.sleep is called; it returns no earlier than wake
StartSleep ==
    /\ mode = "rate"
    /\ \E t \in Threads :
          /\ output.line[t] = 37
          /\ output.wake[t] = 0
          /\ output' = [output EXCEPT
                !.wake[t] = output.clock
                            + SleepFor(output.now[t], output._LAST_REQ_AT)]
    /\ UNCHANGED <<mode, pc, input>>

\* line 37: time.sleep returns
WakeUp ==
    /\ mode = "rate"
    /\ \E t \in Threads :
          /\ output.line[t] = 37
          /\ output.wake[t] # 0
          /\ output.clock >= output.wake[t]
          /\ output' = [output EXCEPT !.wake[t] = 0, !.slept[t] = TRUE,
                                      !.line[t] = 38]
    /\ UNCHANGED <<mode, pc, input>>

\* line 38 and the end of the with block: the clock is read again and
\* written to _LAST_REQ_AT, the lock is released and _rate_limit returns
StampAndRelease ==
    /\ mode = "rate"
    /\ \E t \in Threads :
          /\ output.line[t] = 38
          /\ output' = [output EXCEPT
                !._LAST_REQ_AT = output.clock,
                !._RATE_LOCK = 0,
                !.releases = Append(output.releases,
                                    [op |-> output.op[t], at |-> output.clock,
                                     slept |-> output.slept[t]]),
                !.now[t] = 0,
                !.slept[t] = FALSE,
                !.line[t] = 59]
    /\ UNCHANGED <<mode, pc, input>>

\* lines 59 and 86: SESSION.get runs outside the lock and the call returns
Request ==
    /\ mode = "rate"
    /\ \E t \in Threads :
          /\ output.line[t] = 59
          /\ output' = [output EXCEPT !.op[t] = "", !.line[t] = 0]
    /\ UNCHANGED <<mode, pc, input>>

NextRate ==
    \/ Tick \/ CacheHit \/ CallRateLimit \/ Acquire \/ ReadNow
    \/ StartSleep \/ WakeUp \/ StampAndRelease \/ Request

SpecRate == InitRate /\ [][NextRate]_vars

(***************************************************************************)
(* Claims about _parse_int_loose (SpecParse).                              *)
(***************************************************************************)
\* digits and commas with at least one digit: an unsigned integer written
\* with comma separators
GroupedBody(b) ==
    /\ \A i \in 1..Len(b) : IsDigit(b[i]) \/ b[i] = ","
    /\ \E i \in 1..Len(b) : IsDigit(b[i])

\* an optionally signed grouped integer with optional surrounding whitespace
IsGroupedInteger(s) == GroupedBody(Unsigned(Strip(s)))

\* "(N)" with N an unsigned grouped integer, with optional surrounding whitespace
IsParenthesized(s) ==
    LET t == Strip(s)
    IN  /\ Len(t) >= 2
        /\ t[1] = "("
        /\ t[Len(t)] = ")"
        /\ GroupedBody(SubSeq(t, 2, Len(t) - 1))

\* the number the digits of s spell once everything else is deleted
DigitsOnlyValue(s) == DigitsValue(SelectSeq(s, IsDigit))

\* C7: _parse_int_loose returns, for an optionally signed integer text with
\* comma separators and surrounding whitespace, the integer left when the
\* commas are deleted; for "(N)" it returns -N; on None it raises ValueError.
C7_ParseIntLoose ==
    (mode = "parse" /\ pc = "done") =>
        /\ IsNone(input.txt) => output.outcome = "ValueError"
        /\ (~IsNone(input.txt) /\ IsGroupedInteger(Get(input.txt))) =>
              output = [outcome |-> "returned",
                        val |-> SignOf(Strip(Get(input.txt))) * DigitsOnlyValue(Get(input.txt))]
        /\ (~IsNone(input.txt) /\ IsParenthesized(Get(input.txt))) =>
              output = [outcome |-> "returned", val |-> 0 - DigitsOnlyValue(Get(input.txt))]

\* "1,234,567" has been parsed to 1234567
C7_Witness ==
    /\ mode = "parse"
    /\ pc = "done"
    /\ input.txt = Some(<<"1", ",", "2", "3", "4", ",", "5", "6", "7">>)
    /\ output = [outcome |-> "returned", val |-> 1234567]

(***************************************************************************)
(* Claims about _find_fact_in_contexts (SpecResolve).  The predicates      *)
(* below restate the filters from the document itself: the context         *)
(* declarations, the unit declarations and the element texts.              *)
(***************************************************************************)
MinOf(S) == CHOOSE x \in S : \A y \in S : x <= y

\* the context cid is declared with a period of the required kind
DeclaredKind(root, cid, need_duration) ==
    \E i \in 1..Len(root.ctxDecls) :
        /\ root.ctxDecls[i].id = Some(cid)
        /\ ~IsNone(root.ctxDecls[i].period)
        /\ IsNone(Get(root.ctxDecls[i].period).instant) = need_duration

CurrencyCode == <<"J", "P", "Y">>

\* the measure is the currency code, bare or after a "prefix:" qualifier,
\* in any letter case
NamesCurrency(m) ==
    /\ Len(m) >= Len(CurrencyCode)
    /\ Lower(SubSeq(m, Len(m) - Len(CurrencyCode) + 1, Len(m))) = Lower(CurrencyCode)
    /\ (Len(m) = Len(CurrencyCode) \/ m[Len(m) - Len(CurrencyCode)] = ":")

\* the unit reference is the currency code itself or names a unit
\* declaration one of whose measures is the currency code
DenotesLocalCurrency(root, unit_ref) ==
    /\ ~IsNone(unit_ref)
    /\ \/ Lower(Get(unit_ref)) = Lower(CurrencyCode)
       \/ \E i \in 1..Len(root.units) :
             /\ root.units[i].id = Get(unit_ref)
             /\ \E j \in 1..Len(root.units[i].measures) :
                   NamesCurrency(root.units[i].measures[j])

\* the text is an integer the parser accepts, and the integer it spells
Parseable(text) ==
    /\ ~IsNone(text)
    /\ (IsGroupedInteger(Get(text)) \/ IsParenthesized(Get(text)))

SpelledValue(text) ==
    IF IsParenthesized(Get(text)) THEN 0 - DigitsOnlyValue(Get(text))
    ELSE SignOf(Strip(Get(text))) * DigitsOnlyValue(Get(text))

\* the element passes the context and period-kind filters of the call
InAdmissibleContext(call, el) ==
    /\ ~IsNone(el.contextRef)
    /\ InList(Get(el.contextRef), call.allowed_context_ids)
    /\ DeclaredKind(call.root, Get(el.contextRef), call.need_duration)

\* the element passes every filter of the call, unit included if checked
Survives(call, el, check_unit) ==
    /\ InAdmissibleContext(call, el)
    /\ check_unit => DenotesLocalCurrency(call.root, el.unitRef)
    /\ Parseable(el.text)

\* positions in the document of the surviving elements of a tag
Survivors(call, tag) ==
    {i \in 1..Len(call.root.elems) :
        /\ call.root.elems[i].local = tag.local
        /\ Survives(call, call.root.elems[i], call.check_unit)}

\* positions in the tag list of the tags that have a surviving element
TagsWithSurvivor(call) ==
    {k \in 1..Len(call.tag_list) : Survivors(call, call.tag_list[k]) # {}}

\* the fact of the first surviving element, in document order, of tag k
FactOfTag(call, k) ==
    LET el == call.root.elems[MinOf(Survivors(call, call.tag_list[k]))]
    IN  Found(SpelledValue(el.text), call.tag_list[k], Get(el.contextRef))

Returned == mode = "resolve" /\ pc = "done" /\ output.outcome = "returned"

\* C1: in every call that returns, if two or more tags of the list each have
\* an element passing every filter, the returned fact is the fact of the tag
\* that comes earliest in the list, whatever the order of the elements in
\* the document.  (Calls that raise are the subject of C5 and C6.)
C1_TagPriority ==
    (Returned /\ Cardinality(TagsWithSurvivor(input)) >= 2) =>
        /\ output.tag = Some(input.tag_list[MinOf(TagsWithSurvivor(input))])
        /\ output = FactOfTag(input, MinOf(TagsWithSurvivor(input)))

\* the NetSales element comes first in the document, both tags have a
\* surviving element, and the Revenue fact was returned
C1_Witness ==
    /\ Returned
    /\ input.tag_list = <<Tag("Revenue"), Tag("NetSales")>>
    /\ Len(input.root.elems) = 2
    /\ input.root.elems[1].local = "NetSales"
    /\ input.root.elems[2].local = "Revenue"
    /\ Cardinality(TagsWithSurvivor(input)) = 2
    /\ output.tag = Some(Tag("Revenue"))

\* C2: in every call that returns, when the earlier tags of the list have no
\* surviving element and a later tag has one, the result is the triple
\* (parsed value, that later tag, contextRef of its first surviving element);
\* and whenever a value is returned its context id is in the admissible set
\* and the value is the parse of an element with the returned tag and
\* contextRef.
C2_FallThroughProvenance ==
    Returned =>
        /\ (TagsWithSurvivor(input) # {} /\ MinOf(TagsWithSurvivor(input)) > 1) =>
              output = FactOfTag(input, MinOf(TagsWithSurvivor(input)))
        /\ ~IsNone(output.val) =>
              /\ InList(Get(output.ctx), input.allowed_context_ids)
              /\ \E i \in 1..Len(input.root.elems) :
                    /\ input.root.elems[i].local = Get(output.tag).local
                    /\ input.root.elems[i].contextRef = output.ctx
                    /\ Parseable(input.root.elems[i].text)
                    /\ SpelledValue(input.root.elems[i].text) = Get(output.val)

\* the query [Revenue, NetSales] on a document whose only fact is NetSales
\* "12,000" in the duration context c1 with a yen unit gave (12000, NetSales, c1)
C2_Witness ==
    /\ mode = "resolve"
    /\ pc = "done"
    /\ input.tag_list = <<Tag("Revenue"), Tag("NetSales")>>
    /\ input.allowed_context_ids = <<"c1">>
    /\ input.need_duration
    /\ input.check_unit
    /\ input.root.elems = <<Elem("NetSales", NsMap.jppfs_cor, Some("c1"), Some(UYen),
                                 Some(<<"1", "2", ",", "0", "0", "0">>))>>
    /\ output = Found(12000, Tag("NetSales"), "c1")

\* positions of the elements the returned fact can have come from: the
\* returned tag's name, the returned contextRef and a text spelling the
\* returned value
SourcesOfOutput ==
    {i \in 1..Len(input.root.elems) :
        /\ input.root.elems[i].local = Get(output.tag).local
        /\ input.root.elems[i].contextRef = output.ctx
        /\ Parseable(input.root.elems[i].text)
        /\ SpelledValue(input.root.elems[i].text) = Get(output.val)}

\* the tags that have a surviving element when the unit is not looked at,
\* and the first such element of the earliest such tag
TagsIgnoringUnit(call) == TagsWithSurvivor([call EXCEPT !.check_unit = FALSE])

FirstIgnoringUnit(call) ==
    LET c == [call EXCEPT !.check_unit = FALSE]
    IN  c.root.elems[MinOf(Survivors(c, c.tag_list[MinOf(TagsWithSurvivor(c))]))]

C5_AbsenceNeverRaises ==
    (mode = "resolve" /\ pc = "done" /\ TagsWithSurvivor(input) = {}) => output = Absent

\* C6: on a document whose EDINETCodeDEI element is present, a candidate that
\* passed the filters and whose text cannot be converted to an integer is
\* skipped: the resolver raises nothing and returns the fact of the first
\* element that passes the filters and parses, or the absent result.
C6_ParseFailureLocal ==
    (mode = "resolve" /\ pc = "done" /\ input.root.dei = "present") =>
        /\ output.outcome = "returned"
        /\ output = IF TagsWithSurvivor(input) = {} THEN Absent
                    ELSE FactOfTag(input, MinOf(TagsWithSurvivor(input)))

(***************************************************************************)
(* Claims about _calculate_inventories_value (SpecInv).                    *)
(***************************************************************************)
\* positions of the elements of a tag that pass every filter, the namespace
\* of a prefixed tag included
Resolving(call, tag) ==
    {i \in Survivors(call, tag) :
        IsNone(tag.prefix) \/ call.root.nsmap[Get(tag.prefix)] = call.root.elems[i].ns}

Resolves(call, name) == Resolving(call, Tag(name)) # {}

FirstResolving(call, tag) == call.root.elems[MinOf(Resolving(call, tag))]

\* the value of a component, 0 when it does not resolve
ValueOr0(call, name) ==
    IF Resolves(call, name) THEN SpelledValue(FirstResolving(call, Tag(name)).text) ELSE 0

\* the total tags that resolve, by position in the priority list
TotalsResolving(call) == {k \in 1..Len(total_tags) : Resolving(call, total_tags[k]) # {}}

\* what each group contributes: a resolving combined tag alone, else its parts
FinishedGoodsGroup(call) ==
    IF Resolves(call, "MerchandiseAndFinishedGoods")
    THEN ValueOr0(call, "MerchandiseAndFinishedGoods")
    ELSE ValueOr0(call, "Merchandise") + ValueOr0(call, "FinishedGoods")

InProcessGroup(call) == ValueOr0(call, "WorkInProcess") + ValueOr0(call, "SemiFinishedGoods")

RawMaterialsGroup(call) ==
    IF Resolves(call, "RawMaterialsAndSupplies")
    THEN ValueOr0(call, "RawMaterialsAndSupplies")
    ELSE ValueOr0(call, "RawMaterials") + ValueOr0(call, "Supplies")

\* the component tags in evaluation order, a group's parts left out when its
\* combined tag resolves
EvaluationOrder(call) ==
    (IF Resolves(call, "MerchandiseAndFinishedGoods")
     THEN <<"MerchandiseAndFinishedGoods">> ELSE <<"Merchandise", "FinishedGoods">>)
    \o <<"WorkInProcess", "SemiFinishedGoods">>
    \o (IF Resolves(call, "RawMaterialsAndSupplies")
        THEN <<"RawMaterialsAndSupplies">> ELSE <<"RawMaterials", "Supplies">>)

ComponentsFound(call) ==
    {k \in 1..Len(EvaluationOrder(call)) : Resolves(call, EvaluationOrder(call)[k])}

FirstComponentCtx(call) ==
    FirstResolving(call, Tag(EvaluationOrder(call)[MinOf(ComponentsFound(call))])).contextRef

InvReturned == mode = "inv" /\ pc = "done" /\ output.outcome = "returned"

\* C8: in every call that returns, when no total tag resolves the result is
\* absent if no component tag resolves, and otherwise the sum of the
\* resolved components (a missing one counting 0) with the tag
\* "Inventories(Calculated)" and the context id of the first component found
\* in evaluation order.
C8_CompositeFallback ==
    (InvReturned /\ TotalsResolving(input) = {}) =>
        IF ComponentsFound(input) = {} THEN output = Absent
        ELSE output = [outcome |-> "returned",
                       val |-> Some(FinishedGoodsGroup(input) + InProcessGroup(input)
                                    + RawMaterialsGroup(input)),
                       tag |-> Some(Tag("Inventories(Calculated)")),
                       ctx |-> FirstComponentCtx(input)]

\* no total tag, Merchandise = 100 in i2 and FinishedGoods = 50 in i1 and no
\* other component: 150 was returned with the context of Merchandise
C8_Witness ==
    /\ InvReturned
    /\ TotalsResolving(input) = {}
    /\ \A n \in InvComponentNames : Resolves(input, n) <=> n \in {"Merchandise", "FinishedGoods"}
    /\ FirstResolving(input, Tag("Merchandise")).contextRef = Some("i2")
    /\ FirstResolving(input, Tag("FinishedGoods")).contextRef = Some("i1")
    /\ output = [outcome |-> "returned", val |-> Some(150),
                 tag |-> Some(Tag("Inventories(Calculated)")), ctx |-> Some("i2")]

\* C9: in every call that returns, if a total tag resolves, the value, tag
\* and context of the first resolving total tag are returned and nothing is
\* summed; otherwise a resolving combined tag stands alone for its group
\* (finished goods, raw materials), the group's part tags adding nothing,
\* and the in-process group is the sum of its two parts.
C9_NoDoubleCounting ==
    InvReturned =>
        /\ TotalsResolving(input) # {} =>
              LET tag == total_tags[MinOf(TotalsResolving(input))]
                  el == FirstResolving(input, tag)
              IN  output = Found(SpelledValue(el.text), tag, Get(el.contextRef))
        /\ (TotalsResolving(input) = {} /\ ComponentsFound(input) # {}) =>
              output.val = Some(FinishedGoodsGroup(input) + InProcessGroup(input)
                                + RawMaterialsGroup(input))

\* no total tag; both combined tags resolve next to all four of their parts
\* and the two in-process parts: 7 + 1000 + 2000 + 10 was returned
C9_Witness ==
    /\ InvReturned
    /\ TotalsResolving(input) = {}
    /\ \A n \in InvComponentNames : Resolves(input, n)
    /\ output.val = Some(3017)

(***************************************************************************)
(* Claims about parse_financial_facts (SpecFacts).                         *)
(***************************************************************************)
\* the declaration of context cid carries a scenario member that is the
\* non-consolidated member on the consolidation axis
DeclaredNonConsolidated(root, cid) ==
    \E i \in 1..Len(root.ctxDecls) :
        /\ root.ctxDecls[i].id = Some(cid)
        /\ ~IsNone(root.ctxDecls[i].scenario)
        /\ \E k \in 1..Len(Get(root.ctxDecls[i].scenario)) :
              /\ Get(root.ctxDecls[i].scenario)[k].dimension = Some(ConsolidationAxis)
              /\ Get(root.ctxDecls[i].scenario)[k].text
                    = Some(<<"jppfs_cor:", "Non", "ConsolidatedMember">>)

DeclaredScope(root, cid) ==
    IF DeclaredNonConsolidated(root, cid) THEN "non_consolidated" ELSE "consolidated"

FactsReturned == mode = "facts" /\ pc = "done" /\ output.outcome = "returned"

RecordedScopes == DOMAIN output.results \ {"accounting_standard"}

\* the item is recorded under the scope
IsRecorded(scope, item) == scope \in RecordedScopes /\ item \in DOMAIN output.results[scope]

\* positions of the elements carrying one of the tags
ElementsOf(root, tags) ==
    {i \in 1..Len(root.elems) : \E k \in 1..Len(tags) : root.elems[i].local = tags[k].local}

\* C3: in every call of parse_financial_facts that returns, every fact
\* recorded under scope s has a context declared with scope s and comes from
\* an element attached to that context; and a concept whose only candidate
\* elements are attached to contexts of the other scope is not recorded
\* under s at all.
C3_ConsolidationFilter ==
    FactsReturned =>
        /\ \A s \in RecordedScopes : \A it \in DOMAIN output.results[s] :
              \A p \in DOMAIN output.results[s][it] :
                 LET rec == output.results[s][it][p]
                 IN  /\ ~IsNone(rec.context)
                     /\ Get(rec.context).scope = s
                     /\ DeclaredScope(input.root, Get(rec.context).id) = s
                     /\ \E i \in 1..Len(input.root.elems) :
                           /\ input.root.elems[i].contextRef = Some(Get(rec.context).id)
                           /\ it # "inventories" =>
                                 /\ input.root.elems[i].local = rec.tag.local
                                 /\ SpelledValue(input.root.elems[i].text) = rec.value
        /\ \A s \in {"consolidated", "non_consolidated"} :
              \A e \in 1..Len(FINANCIAL_ITEM_TAGS) :
                 (/\ FINANCIAL_ITEM_TAGS[e].item # "inventories"
                  /\ \A i \in ElementsOf(input.root, FINANCIAL_ITEM_TAGS[e].tags) :
                        /\ ~IsNone(input.root.elems[i].contextRef)
                        /\ DeclaredScope(input.root, Get(input.root.elems[i].contextRef)) # s)
                 => ~IsRecorded(s, FINANCIAL_ITEM_TAGS[e].item)

\* the document declares consolidated and non-consolidated contexts for the
\* current year and its only fact is NetSales in the non-consolidated
\* duration context: it is recorded under non_consolidated and nothing is
\* recorded under consolidated
C3_Witness ==
    /\ FactsReturned
    /\ Len(input.root.ctxDecls) = 6
    /\ input.root.elems = <<Elem("NetSales", NsMap.jppfs_cor, Some("nd"), Some(UYen),
                                 Some(FactText.nd))>>
    /\ RecordedScopes = {"non_consolidated"}
    /\ output.results["non_consolidated"]["net_sales"]["current"].value = 500000
    /\ output.results["non_consolidated"]["net_sales"]["current"].tag = Tag("NetSales")

(***************************************************************************)
(* Claims about pick_recent_annual_reports (SpecPick).                     *)
(***************************************************************************)
\* positions in the index of the eligible filings of the company: an annual
\* report or a correction with XBRL, not withdrawn, normally disclosed, with
\* a period end that is a date
EligibleFilings ==
    {i \in 1..Len(input.df_idx) :
        /\ input.df_idx[i].edinetCode = input.edinet_code
        /\ input.df_idx[i].docTypeCode \in {"120", "130"}
        /\ input.df_idx[i].xbrlFlag = "1"
        /\ input.df_idx[i].withdrawalStatus = "0"
        /\ input.df_idx[i].disclosureStatus = "0"
        /\ ~IsNone(input.df_idx[i].periodEnd)
        /\ ValidDate(Get(input.df_idx[i].periodEnd))}

SharingPeriodEnd(d) == {i \in EligibleFilings : input.df_idx[i].periodEnd = Some(d)}

PeriodEnds == {Get(input.df_idx[i].periodEnd) : i \in EligibleFilings}

\* positions in the index of the filings kept after the tie-break
KeptFilings == {output.kept[n].row.docID : n \in 1..Len(output.kept)}

Picked == mode = "pick" /\ pc = "done"

\* C10: among the eligible filings of the company that share a period end,
\* exactly one is kept; it is a correction (130) whenever one of them is,
\* whatever the submission times; and no filing of the same docTypeCode as
\* the kept one has a later submission timestamp.
C10_FilingTieBreak ==
    Picked =>
        /\ KeptFilings \subseteq EligibleFilings
        /\ Len(output.kept) = Cardinality(KeptFilings)
        /\ \A d \in PeriodEnds :
              /\ Cardinality(KeptFilings \cap SharingPeriodEnd(d)) = 1
              /\ \A k \in KeptFilings \cap SharingPeriodEnd(d) :
                    /\ (\E i \in SharingPeriodEnd(d) : input.df_idx[i].docTypeCode = "130")
                          => input.df_idx[k].docTypeCode = "130"
                    /\ \A i \in SharingPeriodEnd(d) :
                          (/\ input.df_idx[i].docTypeCode = input.df_idx[k].docTypeCode
                           /\ ~IsNone(input.df_idx[i].submitDateTime))
                          => /\ ~IsNone(input.df_idx[k].submitDateTime)
                             /\ Get(input.df_idx[k].submitDateTime)
                                   >= Get(input.df_idx[i].submitDateTime)

\* an annual report submitted at time 2, its correction submitted at time 1
\* and a second correction without a timestamp share a period end: the
\* correction submitted at time 1 is the one kept
C10_Witness ==
    /\ Picked
    /\ Len(input.df_idx) = 3
    /\ EligibleFilings = {1, 2, 3}
    /\ \A i \in 1..3 : input.df_idx[i].periodEnd = Some(FY24End)
    /\ input.df_idx[1].docTypeCode = "120" /\ input.df_idx[1].submitDateTime = Some(2)
    /\ input.df_idx[2].docTypeCode = "130" /\ input.df_idx[2].submitDateTime = Some(1)
    /\ input.df_idx[3].docTypeCode = "130" /\ input.df_idx[3].submitDateTime = None
    /\ KeptFilings = {2}

\* the winners: positions in the index of the filings kept, one per period end
Winners == KeptFilings

\* positions in the index of the returned filings
ReturnedFilings == {output.results[n].docID : n \in 1..Len(output.results)}

\* filing a was submitted later than filing b; a filing without a timestamp
\* is later than none and every timestamped filing is later than it
SubmittedLater(a, b) ==
    /\ ~IsNone(input.df_idx[a].submitDateTime)
    /\ \/ IsNone(input.df_idx[b].submitDateTime)
       \/ Get(input.df_idx[a].submitDateTime) > Get(input.df_idx[b].submitDateTime)

ParseablePeriodEnd(text) == ~IsNone(text) /\ ValidDate(Get(text))

\* C12: every returned filing is a row of the index that belongs to the
\* requested company, is an annual report (120) or its correction (130), has
\* xbrlFlag 1, withdrawalStatus 0, disclosureStatus 0 and a period end that
\* parses to a date; an empty or absent index gives the empty list.
C12_Eligibility ==
    Picked =>
        /\ \A n \in 1..Len(output.results) :
              LET r == output.results[n]
              IN  /\ r.docID \in 1..Len(input.df_idx)
                  /\ r.edinetCode = input.df_idx[r.docID].edinetCode
                  /\ r.docTypeCode = input.df_idx[r.docID].docTypeCode
                  /\ r.xbrlFlag = input.df_idx[r.docID].xbrlFlag
                  /\ r.withdrawalStatus = input.df_idx[r.docID].withdrawalStatus
                  /\ r.disclosureStatus = input.df_idx[r.docID].disclosureStatus
                  /\ r.edinetCode = input.edinet_code
                  /\ r.docTypeCode \in {"120", "130"}
                  /\ r.xbrlFlag = "1"
                  /\ r.withdrawalStatus = "0"
                  /\ r.disclosureStatus = "0"
                  /\ ParseablePeriodEnd(input.df_idx[r.docID].periodEnd)
                  /\ r.periodEnd_str = Get(input.df_idx[r.docID].periodEnd)
        /\ input.df_idx = <<>> => output.results = <<>>

\* an annual report of the company, a withdrawn correction submitted later
\* for the same period end and a correction without a parseable period end:
\* only the annual report is returned
C12_Witness ==
    /\ Picked
    /\ Len(input.df_idx) = 3
    /\ input.df_idx[1].docTypeCode = "120" /\ input.df_idx[1].withdrawalStatus = "0"
    /\ input.df_idx[1].periodEnd = Some(FY24End) /\ input.df_idx[1].submitDateTime = Some(1)
    /\ input.df_idx[2].docTypeCode = "130" /\ input.df_idx[2].withdrawalStatus = "1"
    /\ input.df_idx[2].periodEnd = Some(FY24End) /\ input.df_idx[2].submitDateTime = Some(3)
    /\ input.df_idx[3].docTypeCode = "130" /\ input.df_idx[3].periodEnd = None
    /\ Len(output.results) = 1
    /\ output.results[1].docID = 1

(***************************************************************************)
(* Claims about extract_financials (SpecExtract).                          *)
(***************************************************************************)
Extracted == mode = "extract" /\ pc = "done"

\* what EDINET answered for the filing
Fetched == input.edinet[input.report.docID]

\* positions of the declarations of duration contexts that end on the
\* period end of the filing and have the scope
TargetDurations(root, scope) ==
    {i \in 1..Len(root.ctxDecls) :
        /\ ~IsNone(root.ctxDecls[i].id)
        /\ ~IsNone(root.ctxDecls[i].period)
        /\ IsNone(Get(root.ctxDecls[i].period).instant)
        /\ Get(root.ctxDecls[i].period).endDate = Some(input.report.periodEnd_str)
        /\ DeclaredScope(root, Get(root.ctxDecls[i].id)) = scope}

\* the elements of the revenue concept are one NetSales of 1000000 in the
\* one consolidated duration context of the period end and one NetSales of
\* 500000 in a non-consolidated one, both with unit JPY
RoundTripDocument(root) ==
    /\ Cardinality(TargetDurations(root, "consolidated")) = 1
    /\ \E c \in TargetDurations(root, "consolidated"),
          n \in TargetDurations(root, "non_consolidated") :
          {root.elems[i] : i \in ElementsOf(root, PL_TAGS.revenue)}
             = {[local |-> "NetSales", ns |-> NsMap.jppfs_cor, contextRef |-> root.ctxDecls[c].id,
                 unitRef |-> Some(<<"J", "P", "Y">>),
                 text |-> Some(<<"1", "0", "0", "0", "0", "0", "0">>)],
                [local |-> "NetSales", ns |-> NsMap.jppfs_cor, contextRef |-> root.ctxDecls[n].id,
                 unitRef |-> Some(<<"J", "P", "Y">>),
                 text |-> Some(<<"5", "0", "0", "0", "0", "0">>)]}

\* C13: on a document whose revenue facts are NetSales = 1000000 in the
\* consolidated duration context of the period end and NetSales = 500000 in
\* a non-consolidated one, both in JPY, a call of extract_financials that
\* returns gives revenue 1000000 when consolidated_required is true and
\* 500000 when it is false.
C13_TargetedRoundTrip ==
    (/\ Extracted
     /\ output.outcome = "returned"
     /\ ~IsNone(Fetched)
     /\ Get(Fetched).markup = WellFormedMarkup
     /\ RoundTripDocument(Get(Fetched).root))
    => /\ "revenue" \in DOMAIN output.details
       /\ output.details["revenue"]
             = Some(IF input.consolidated_required THEN 1000000 ELSE 500000)

\* the document lists the consolidated NetSales first and the call asks for
\* non-consolidated figures: revenue is 500000, from NetSales in context nd
C13_Witness ==
    /\ Extracted
    /\ ~IsNone(Fetched)
    /\ Get(Fetched).markup = WellFormedMarkup
    /\ RoundTripDocument(Get(Fetched).root)
    /\ Get(Fetched).root.elems[1].contextRef = Some("cd")
    /\ ~input.consolidated_required
    /\ output.outcome = "returned"
    /\ output.details["revenue"] = Some(500000)
    /\ output.details["revenueTag"] = Some(Tag("NetSales"))
    /\ output.details["revenueCtx"] = Some("nd")

\* no bytes were fetched, or the bytes are not well-formed XML
NoDocument == IsNone(Fetched) \/ Get(Fetched).markup \in MalformedMarkups \cup {<<>>}

\* C17: when no bytes were fetched or the bytes are not well-formed XML,
\* extract_financials returns, and the record holds docID, periodEnd and
\* periodStart of the filing and nothing else.
C17_MalformedDocument ==
    (Extracted /\ NoDocument)
    => /\ output.outcome = "returned"
       /\ DOMAIN output.details = {"docID", "periodEnd", "periodStart"}
       /\ output.details["docID"] = Some(input.report.docID)
       /\ output.details["periodEnd"] = Some(input.report.periodEnd_str)
       /\ output.details["periodStart"] = input.report.periodStart

\* the bytes of an instance with a NetSales fact stop before the root element
\* is closed: the record holds the three keys only
C17_Witness ==
    /\ Extracted
    /\ ~IsNone(Fetched)
    /\ Get(Fetched).markup = <<Open("xbrl"), Open("context"), Close("context")>>
    /\ Get(Fetched).root.dei = "present"
    /\ Get(Fetched).root.nsmap = NsMap
    /\ Len(Get(Fetched).root.elems) = 1
    /\ Get(Fetched).root.elems[1].local = "NetSales"
    /\ Get(Fetched).root.elems[1].contextRef = Some("cd")
    /\ output.outcome = "returned"
    /\ DOMAIN output.details = {"docID", "periodEnd", "periodStart"}

\* the concepts of the flat record, each with the keys its tag and its
\* context id are looked for under
FlatConcepts ==
    { <<"revenue", "revenueTag", "revenueCtx">>,
      <<"operatingProfit", "operatingProfitTag", "operatingProfitCtx">>,
      <<"operatingCashFlow", "operatingCashFlowTag", "operatingCashFlowCtx">>,
      <<"totalAssets", "totalAssetsTag", "totalAssetsCtx">>,
      <<"totalLiabilities", "totalLiabilitiesTag", "totalLiabilitiesCtx">>,
      <<"equity", "equityTag", "equityCtx">>,
      <<"currentAssets", "currentAssetsTag", "currentAssetsCtx">>,
      <<"currentLiabilities", "currentLiabilitiesTag", "currentLiabilitiesCtx">>,
      <<"inventory", "inventoryTag", "inventoryCtx">>,
      <<"accountsReceivable", "accountsReceivableTag", "accountsReceivableCtx">>,
      <<"totalShares", "totalSharesTag", "totalSharesCtx">>,
      <<"netIncome", "netIncomeTag", "netIncomeCtx">>,
      <<"cashAndEquivalents", "cashAndEquivalentsTag", "cashAndEquivalentsCtx">> }

\* the flat record holds a value for the concept
FlatResolved(c) == c[1] \in DOMAIN output.details /\ ~IsNone(output.details[c[1]])

\* the flat record holds, for the concept, the tag and the context id of an
\* element of the document
FlatProvenance(c) ==
    /\ c[2] \in DOMAIN output.details
    /\ c[3] \in DOMAIN output.details
    /\ \E i \in 1..Len(Get(Fetched).root.elems) :
          /\ output.details[c[2]] = Some(Tag(Get(Fetched).root.elems[i].local))
          /\ output.details[c[3]] = Get(Fetched).root.elems[i].contextRef

\* C16: for every concept the flat record of extract_financials holds a
\* value for, the record also holds the tag and the context id the value was
\* read from.
C16_ProvenancePreserved ==
    (Extracted /\ output.outcome = "returned")
    => \A c \in FlatConcepts : FlatResolved(c) => FlatProvenance(c)

(***************************************************************************)
(* Claims about the periods of parse_financial_facts (SpecFacts).          *)
(***************************************************************************)
\* the declaration of context cid
DeclOf(root, cid) ==
    root.ctxDecls[CHOOSE i \in 1..Len(root.ctxDecls) : root.ctxDecls[i].id = Some(cid)]

\* the declaration has a period with an instant
DeclaredInstant(decl) == ~IsNone(decl.period) /\ ~IsNone(Get(decl.period).instant)

\* the end date a declaration gives: its instant, else its endDate
DeclaredEnd(decl) ==
    IF DeclaredInstant(decl) THEN Get(decl.period).instant ELSE Get(decl.period).endDate

\* the end dates declared by the contexts of the kind
DeclaredEnds(root, instant) ==
    {Get(DeclaredEnd(root.ctxDecls[i])) :
        i \in {j \in 1..Len(root.ctxDecls) :
                  /\ ~IsNone(root.ctxDecls[j].id)
                  /\ ~IsNone(root.ctxDecls[j].period)
                  /\ DeclaredInstant(root.ctxDecls[j]) = instant
                  /\ ~IsNone(DeclaredEnd(root.ctxDecls[j]))}}

\* a is not before b as an ISO date text
IsoNotBefore(a, b) ==
    a.y * 10000 + a.m * 100 + a.d >= b.y * 10000 + b.m * 100 + b.d

\* the greatest end date declared by the contexts of the kind
MaxDeclaredEnd(root, instant) ==
    CHOOSE d \in DeclaredEnds(root, instant) :
        \A e \in DeclaredEnds(root, instant) : IsoNotBefore(d, e)

\* a is the calendar day before b
DayBefore(a, b) ==
    \/ a.y = b.y /\ a.m = b.m /\ a.d + 1 = b.d
    \/ a.y = b.y /\ a.m + 1 = b.m /\ b.d = 1 /\ a.d = DaysInMonth(a.y, a.m)
    \/ a.y + 1 = b.y /\ a.m = 12 /\ a.d = 31 /\ b.m = 1 /\ b.d = 1

BalanceSheetConcepts == {"inventories", "cash", "debt", "net_assets"}

\* C14: in every call of parse_financial_facts that returns, a fact recorded
\* as current has a context that is an instant for a balance-sheet concept
\* and a duration otherwise, ending on the greatest end date declared by the
\* contexts of that kind; a fact recorded as prior has a context of the same
\* kind ending on that date one year earlier (year minus one, month and day
\* unchanged) or on the day before.
C14_PeriodSelection ==
    FactsReturned =>
        \A s \in RecordedScopes :
            \A item \in DOMAIN output.results[s] :
                \A q \in DOMAIN output.results[s][item] :
                    LET ctx == Get(output.results[s][item][q].context)
                        decl == DeclOf(input.root, ctx.id)
                        instant == item \in BalanceSheetConcepts
                        latest == MaxDeclaredEnd(input.root, instant)
                        yearAgo == [y |-> latest.y - 1, m |-> latest.m, d |-> latest.d]
                    IN  /\ q \in {"current", "prior"}
                        /\ ctx.is_duration = ~instant
                        /\ DeclaredInstant(decl) = instant
                        /\ ctx.endDate = DeclaredEnd(decl)
                        /\ q = "current" => DeclaredEnd(decl) = Some(latest)
                        /\ q = "prior" =>
                              \/ DeclaredEnd(decl) = Some(yearAgo)
                              \/ DayBefore(Get(DeclaredEnd(decl)), yearAgo)

\* the document declares the six contexts and holds CashAndDeposits in the
\* non-consolidated instants of 2024-03-31 and 2023-03-30: the first is
\* recorded as current and the second, one day before 2023-03-31, as prior
C14_Witness ==
    /\ FactsReturned
    /\ Len(input.root.ctxDecls) = 6
    /\ input.root.elems
          = <<Elem("CashAndDeposits", NsMap.jppfs_cor, Some("pi"), Some(UYen), Some(FactText.pi)),
              Elem("CashAndDeposits", NsMap.jppfs_cor, Some("ni"), Some(UYen), Some(FactText.ni))>>
    /\ IsRecorded("non_consolidated", "cash")
    /\ DOMAIN output.results["non_consolidated"]["cash"] = {"current", "prior"}
    /\ Get(output.results["non_consolidated"]["cash"]["current"].context).id = "ni"
    /\ Get(output.results["non_consolidated"]["cash"]["prior"].context).id = "pi"
    /\ Get(output.results["non_consolidated"]["cash"]["prior"].context).endDate
          = Some(Date(2023, 3, 30))

Built == mode = "contexts" /\ pc = "done"

\* the entries registered under the id
RegisteredAs(cid) ==
    {output.contexts[k] : k \in {j \in 1..Len(output.contexts) : output.contexts[j].id = cid}}

HasId(decl) == ~IsNone(decl.id) /\ Get(decl.id) # ""

\* C20: a context with an id and a period that holds an instant is
\* registered as an instant ending on the instant; one with an id and a
\* period without an instant is registered as a duration with the dates of
\* its startDate and endDate children, none for a missing child; a context
\* without an id or without a period is not registered, and the resolver
\* never returns a fact of it.
C20_ContextRegistration ==
    Built =>
        /\ Len(output.contexts)
              = Cardinality({j \in 1..Len(input.root.ctxDecls) :
                               /\ HasId(input.root.ctxDecls[j])
                               /\ ~IsNone(input.root.ctxDecls[j].period)})
        /\ \A i \in 1..Len(input.root.ctxDecls) :
            LET decl == input.root.ctxDecls[i]
            IN  /\ (HasId(decl) /\ DeclaredInstant(decl))
                      => \E e \in RegisteredAs(Get(decl.id)) :
                            /\ RegisteredAs(Get(decl.id)) = {e}
                            /\ ~e.is_duration
                            /\ e.endDate = Get(decl.period).instant
                /\ (HasId(decl) /\ ~IsNone(decl.period) /\ ~DeclaredInstant(decl))
                      => \E e \in RegisteredAs(Get(decl.id)) :
                            /\ RegisteredAs(Get(decl.id)) = {e}
                            /\ e.is_duration
                            /\ e.startDate = Get(decl.period).startDate
                            /\ e.endDate = Get(decl.period).endDate
                /\ (~HasId(decl) \/ IsNone(decl.period))
                      => /\ ~IsNone(decl.id) => RegisteredAs(Get(decl.id)) = {}
                         /\ ~IsNone(decl.id) => output.found.ctx # decl.id

\* the first context has an id and no period, the second is a duration
\* without an endDate child; each is referenced by a NetSales fact in JPY.
\* Only the second is registered, with no end date, and the call for a
\* duration returns its fact
C20_Witness ==
    /\ Built
    /\ Len(input.root.ctxDecls) = 2
    /\ input.root.ctxDecls[1].id = Some("k1") /\ input.root.ctxDecls[1].period = None
    /\ input.root.ctxDecls[2].id = Some("k2")
    /\ input.root.ctxDecls[2].period
          = Some([instant |-> None, startDate |-> Some(FY24Start), endDate |-> None])
    /\ input.need_duration
    /\ Len(output.contexts) = 1
    /\ output.contexts[1].id = "k2"
    /\ output.contexts[1].is_duration
    /\ output.contexts[1].endDate = None
    /\ output.found.ctx = Some("k2")

(***************************************************************************)
(* Claim about analyze_company_latest (SpecAnalyze).                       *)
(***************************************************************************)
Analyzed == mode = "analyze" /\ pc = "done"

\* the answer of EDINET for the filing is an instance that can be read: the
\* bytes are well-formed, the root binds the prefixes, EDINETCodeDEI is there
\* and the facts are finite numbers
Readable(report) ==
    /\ ~IsNone(input.edinet[report.docID])
    /\ Get(input.edinet[report.docID]).markup = WellFormedMarkup
    /\ Get(input.edinet[report.docID]).root.nsmap = NsMap
    /\ Get(input.edinet[report.docID]).root.dei = "present"
    /\ \A k \in 1..Len(Get(input.edinet[report.docID]).root.elems) :
          Get(input.edinet[report.docID]).root.elems[k].text # Some(<<"i", "n", "f">>)

\* the filing was extracted and recorded: the container has its filing
\* record, with the accounting standard read from the document, and its
\* snapshot
ExtractedAndRecorded(report) ==
    /\ output.outcome = "returned"
    /\ ~IsNone(output.data)
    /\ \E k \in 1..Len(Get(output.data).filings) :
          /\ Get(output.data).filings[k].doc_id = report.docID
          /\ Get(output.data).filings[k].accounting_standard = Some("Japan GAAP")
    /\ \E k \in 1..Len(Get(output.data).financial_snapshots) :
          Get(output.data).financial_snapshots[k].doc_id = report.docID

\* C19: when two filings are selected and the document of one of them
\* cannot be extracted, the other, whose document can be read, is still
\* extracted and recorded.
C19_DocumentIsolation ==
    (Analyzed /\ Len(output.reports) = 2)
    => \A i \in 1..2 :
          (Readable(output.reports[i]) /\ ~Readable(output.reports[3 - i]))
          => ExtractedAndRecorded(output.reports[i])

(***************************************************************************)
(* Claims about the batch loop of main.                                    *)
(***************************************************************************)
BatchDone == mode = "batch" /\ pc = "done"

\* the rows of the index that analyze_company_latest selects for a company
SelectedFor(code) ==
    {i \in DOMAIN input.doc_index_df :
        /\ input.doc_index_df[i].edinetCode = code
        /\ input.doc_index_df[i].withdrawalStatus = "0"}

\* the analysis of the company raises: a selected filing is answered with an
\* instance whose root does not bind xbrli
AnalysisRaisesFor(code) ==
    \E i \in SelectedFor(code) :
        "xbrli" \notin DOMAIN Get(input.edinet[input.doc_index_df[i].docID]).root.nsmap

YieldsDataFor(code) == SelectedFor(code) # {} /\ ~AnalysisRaisesFor(code)

PersistedFor(code) ==
    /\ \E r \in output.db.companies : r.edinet_code = code
    /\ \E r \in output.db.company_screening : r.edinet_code = code
    /\ \A i \in SelectedFor(code) :
          /\ \E r \in output.db.filings :
                r.doc_id = input.doc_index_df[i].docID /\ r.edinet_code = code
          /\ \E r \in output.db.financial_snapshots :
                r.doc_id = input.doc_index_df[i].docID

HandledOnce(code) ==
    Cardinality({k \in 1..Len(output.yielded) : output.yielded[k] = code}) = 1

BatchIsolated ==
    mode = "batch" =>
        /\ pc \in {"loop", "done"}
        /\ output.errors \subseteq
              {c \in DOMAIN output.futures : AnalysisRaisesFor(c) \/ input.db_failing = c}
        /\ (pc = "done" =>
              /\ output.completed_count = Len(input.codes)
              /\ \A k \in 1..Len(input.codes) :
                    /\ output.futures[input.codes[k]].state = "finished"
                    /\ HandledOnce(input.codes[k])
                    /\ (AnalysisRaisesFor(input.codes[k]) => input.codes[k] \in output.errors)
                    /\ (YieldsDataFor(input.codes[k]) /\ input.db_failing # input.codes[k]
                          => PersistedFor(input.codes[k])))

ScopesBuilt == mode = "scope" /\ pc = "done"

HasSuffix(o, suffix) ==
    /\ o # <<>>
    /\ o[1] # <<>>
    /\ Len(o[1]) >= Len(suffix)
    /\ SubSeq(o[1], Len(o[1]) - Len(suffix) + 1, Len(o[1])) = suffix

OnConsolidationAxis(member) ==
    HasSuffix(member.dimension, <<"ConsolidatedOrNonConsolidatedAxis">>)

NamesNonConsolidated(member) == HasSuffix(member.text, <<"Non", "ConsolidatedMember">>)

\* the explicit members of the scenario of the declaration with this id
MembersOf(id) ==
    LET d == CHOOSE k \in 1..Len(input.root.ctxDecls) : input.root.ctxDecls[k].id = <<id>>
    IN  IF input.root.ctxDecls[d].scenario = <<>> THEN <<>>
        ELSE input.root.ctxDecls[d].scenario[1]

SomeMemberNonConsolidated(members) ==
    \E i \in 1..Len(members) :
        OnConsolidationAxis(members[i]) /\ NamesNonConsolidated(members[i])

FirstAxisMemberNonConsolidated(members) ==
    \E i \in 1..Len(members) :
        /\ OnConsolidationAxis(members[i]) /\ NamesNonConsolidated(members[i])
        /\ \A j \in 1..(i - 1) : ~OnConsolidationAxis(members[j])

\* C21 (as stated): a registered context has scope non_consolidated exactly
\* when its scenario contains an explicit member whose dimension ends in the
\* consolidation axis name and whose text ends in the non-consolidated
\* marker; every other registered context has scope consolidated.
C21_ScopeOfAnyMember ==
    ScopesBuilt =>
        \A k \in 1..Len(output.contexts) :
            /\ output.contexts[k].scope \in {"consolidated", "non_consolidated"}
            /\ (output.contexts[k].scope = "non_consolidated"
                  <=> SomeMemberNonConsolidated(MembersOf(output.contexts[k].id)))

\* C21 (amended): a registered context has scope non_consolidated exactly
\* when the first explicit member of its scenario whose dimension ends in
\* the consolidation axis name has a text that ends in the non-consolidated
\* marker; every other registered context (no scenario, no member on the
\* axis, or a first member on the axis that names anything else) has scope
\* consolidated; the rule is the same for every context of the document and
\* never looks at the context id.
C21_ScopeResolution ==
    ScopesBuilt =>
        /\ Len(output.contexts) = Len(input.root.ctxDecls)
        /\ \A k \in 1..Len(output.contexts) :
              /\ output.contexts[k].scope \in {"consolidated", "non_consolidated"}
              /\ (output.contexts[k].scope = "non_consolidated"
                    <=> FirstAxisMemberNonConsolidated(MembersOf(output.contexts[k].id)))

\* one document with a non-consolidated context without the marker in its
\* id and a consolidated context whose id carries the marker and whose
\* scenario has a member on the axis
C21_Witness ==
    /\ ScopesBuilt
    /\ Len(output.contexts) = Len(input.root.ctxDecls)
    /\ output.contexts[1].scope = "non_consolidated"
    /\ FirstAxisMemberNonConsolidated(MembersOf(output.contexts[1].id))
    /\ output.contexts[Len(output.contexts)].scope = "consolidated"
    /\ \E i \in 1..Len(MembersOf(output.contexts[Len(output.contexts)].id)) :
          OnConsolidationAxis(MembersOf(output.contexts[Len(output.contexts)].id)[i])

(***************************************************************************)
(* Claims about _unit_is_jpy.                                              *)
(***************************************************************************)
UnitClassified == mode = "unit" /\ pc = "done"

SpellsJpy(t) ==
    /\ Len(t) = Len(<<"J", "P", "Y">>)
    /\ t[1] \in {"J", "j"}
    /\ t[Len(t) - 1] \in {"P", "p"}
    /\ t[Len(t)] \in {"Y", "y"}

MeasureDenotesYen(m) ==
    \/ SpellsJpy(m)
    \/ \E k \in 1..Len(m) : m[k] = ":" /\ SpellsJpy(SubSeq(m, k + 1, Len(m)))

\* the declarations the reference resolves to: those whose id is the reference
ResolvedUnits(ref) == {k \in 1..Len(input.root.units) : input.root.units[k].id = ref}

DenotesYen(ref) ==
    /\ ref # <<>>
    /\ ref[1] # <<>>
    /\ \/ SpellsJpy(ref[1])
       \/ /\ ResolvedUnits(ref[1]) # {}
          /\ \E i \in 1..Len(input.root.units[CHOOSE k \in ResolvedUnits(ref[1]) :
                                  \A j \in ResolvedUnits(ref[1]) : k <= j].measures) :
                MeasureDenotesYen(input.root.units[CHOOSE k \in ResolvedUnits(ref[1]) :
                                    \A j \in ResolvedUnits(ref[1]) : k <= j].measures[i])

\* C22: _unit_is_jpy returns, and returns true exactly when the unit
\* reference is non-empty and either spells JPY in any case or resolves to a
\* unit declaration (the first with that id) one of whose measures, compared
\* case-insensitively, is JPY or ends with ":JPY"; an absent, empty or
\* unresolvable reference gives false.
C22_UnitClassification ==
    UnitClassified => output.outcome = "returned" /\ (output.val <=> DenotesYen(input.unit_ref))

(***************************************************************************)
(* Claims about the accounting standard.                                   *)
(***************************************************************************)
StandardRead == mode = "standard" /\ pc = "done"

\* the marker the document calls for: the text of its first
\* AccountingStandardsDEI element (None for an element without text), "N/A"
\* without such an element
ExpectedStandard ==
    IF Len(input.root.std) = 0 THEN <<"N/A">> ELSE Head(input.root.std)

\* the document declares a context with an id and a period
SomeContextRegistered ==
    \E k \in 1..Len(input.root.ctxDecls) :
        /\ input.root.ctxDecls[k].id \notin {<<>>, <<"">>}
        /\ input.root.ctxDecls[k].period # <<>>

\* C23 (as stated): for every parsed document the extraction result of
\* either extractor carries the accounting-standard field, with the text of
\* the element or "N/A", whatever contexts and facts the document contains.
C23_StandardAlways ==
    StandardRead /\ output.outcome = "returned" => output.standard = <<ExpectedStandard>>

\* C23 (amended): whenever extraction of a parsed document returns, the
\* result of the targeted extractor carries the accounting-standard field,
\* and the result of the comprehensive extractor carries it exactly when the
\* document has a registered context (without one the result is empty);
\* the field is the text of the first AccountingStandardsDEI element (null
\* for an element without text) and "N/A" without such an element,
\* independently of the facts; no document yields "Error".
C23_StandardMarker ==
    StandardRead /\ output.outcome = "returned" =>
        /\ (input.extractor = "targeted" \/ SomeContextRegistered
              => output.standard = <<ExpectedStandard>>)
        /\ (input.extractor = "comprehensive" /\ ~SomeContextRegistered
              => output.standard = <<>>)
        /\ output.standard # <<<<"Error">>>>

\* the comprehensive extractor returned the text of the first of two
\* elements for a document with contexts and a fact
C23_Witness ==
    /\ StandardRead
    /\ output.outcome = "returned"
    /\ input.extractor = "comprehensive"
    /\ SomeContextRegistered
    /\ Len(input.root.std) > 1
    /\ input.root.elems # <<>>
    /\ output.standard = <<<<"Japan GAAP">>>>

(***************************************************************************)
(* Claims about the fiscal periods pick_recent_annual_reports returns.     *)
(***************************************************************************)
\* the period end of the filing at a position of the index, as a number
\* that grows with the date
PeriodEndOf(i) ==
    input.df_idx[i].periodEnd[1].y * 10000 + input.df_idx[i].periodEnd[1].m * 100
        + input.df_idx[i].periodEnd[1].d

\* every winner for a later period end was submitted later than every
\* winner for an earlier one
SubmissionFollowsPeriods ==
    \A a, b \in Winners : PeriodEndOf(a) > PeriodEndOf(b) => SubmittedLater(a, b)

ResultReturned == Analyzed /\ output.outcome = "returned" /\ output.data # <<>>

\* EDINET gave no document for the filing, or bytes that are not well-formed
NotFetchedOrParsed(docID) ==
    \/ input.edinet[docID] = <<>>
    \/ input.edinet[docID][1].markup # WellFormedMarkup

SnapshotConcepts ==
    {"current_assets", "total_liabilities", "operating_cash_flow", "inventory",
     "accounts_receivable", "total_shares", "net_income", "cash_and_equivalents"}

\* C25: whenever analyze_company_latest returns a result, filings and
\* financial_snapshots have the length of the list of selected filings and
\* carry the same doc ids in the same order, and
\* company_screening.latest_doc_id is the doc id of the first; a filing
\* whose document could not be fetched or parsed has a snapshot with null
\* for every extracted concept and the quality flags MISSING_CA, MISSING_TL.
C25_RecordAlignment ==
    ResultReturned =>
        /\ output.reports # <<>>
        /\ \A n \in 1..Len(output.reports) :
              output.reports[n].docID \in 1..Len(input.doc_index_df)
        /\ Len(output.data[1].filings) = Len(output.reports)
        /\ Len(output.data[1].financial_snapshots) = Len(output.reports)
        /\ \A n \in 1..Len(output.reports) :
              /\ output.data[1].filings[n].doc_id = output.reports[n].docID
              /\ output.data[1].financial_snapshots[n].doc_id = output.reports[n].docID
              /\ (NotFetchedOrParsed(output.reports[n].docID) =>
                    /\ \A c \in SnapshotConcepts :
                          output.data[1].financial_snapshots[n][c] = <<>>
                    /\ output.data[1].financial_snapshots[n].source_quality_flags
                          = <<"MISSING_CA", "MISSING_TL">>)
        /\ output.data[1].company_screening.latest_doc_id = <<output.reports[1].docID>>

\* two filings are selected; the document of the first could not be fetched
\* or parsed, the second was read and gave current assets
C25_Witness ==
    /\ ResultReturned
    /\ Len(output.reports) > 1
    /\ NotFetchedOrParsed(output.reports[1].docID)
    /\ ~NotFetchedOrParsed(output.reports[Len(output.reports)].docID)
    /\ Len(output.data[1].financial_snapshots) = Len(output.reports)
    /\ output.data[1].financial_snapshots[1].current_assets = <<>>
    /\ output.data[1].financial_snapshots[Len(output.reports)].current_assets # <<>>

(***************************************************************************)
(* Claims about the screening record.                                      *)
(***************************************************************************)
Screening == output.data[1].company_screening

\* the value of a concept in the snapshot of the n-th selected filing, as
\* <<>> (null) or <<value>>; null when fewer than n filings were selected
SnapshotValue(n, concept) ==
    IF n > Len(output.data[1].financial_snapshots) THEN <<>>
    ELSE output.data[1].financial_snapshots[n][concept]

BothYears(concept) ==
    SnapshotValue(1, concept) # <<>> /\ SnapshotValue(1 + 1, concept) # <<>>

YearOverYearFlags ==
    [is_cf_increasing |-> "operating_cash_flow",
     is_inventory_warning |-> "inventory",
     is_receivable_warning |-> "accounts_receivable"]

\* C26: ncav is currentAssets - totalLiabilities of the first filing when
\* both are present and null otherwise; NCAV_CALC_FAILED is in alert_flags
\* exactly when ncav is null; each year-over-year flag is null exactly when
\* its value is missing for the latest or the previous filing (so whenever
\* one filing was selected) and is otherwise 0 or 1; is_cf_increasing is 1
\* exactly when the latest operating cash flow is strictly greater than the
\* previous one.
C26_NullPropagation ==
    ResultReturned =>
        /\ Screening.ncav =
              (IF SnapshotValue(1, "current_assets") # <<>>
                  /\ SnapshotValue(1, "total_liabilities") # <<>>
               THEN <<SnapshotValue(1, "current_assets")[1]
                        - SnapshotValue(1, "total_liabilities")[1]>>
               ELSE <<>>)
        /\ ((\E k \in 1..Len(Screening.alert_flags) :
                Screening.alert_flags[k] = "NCAV_CALC_FAILED") <=> Screening.ncav = <<>>)
        /\ \A f \in DOMAIN YearOverYearFlags :
              /\ (Screening[f] = <<>> <=> ~BothYears(YearOverYearFlags[f]))
              /\ Screening[f] \in {<<>>, <<0>>, <<1>>}
        /\ (Len(output.reports) = 1 =>
              \A f \in DOMAIN YearOverYearFlags : Screening[f] = <<>>)
        /\ (Screening.is_cf_increasing = <<1>> <=>
              /\ BothYears("operating_cash_flow")
              /\ SnapshotValue(1, "operating_cash_flow")[1]
                    > SnapshotValue(1 + 1, "operating_cash_flow")[1])

\* the latest filing has current assets but no total liabilities: ncav is
\* null and flagged; the operating cash flow is the same in both years:
\* is_cf_increasing is 0; inventories are there for both years
C26_Witness ==
    /\ ResultReturned
    /\ SnapshotValue(1, "current_assets") # <<>>
    /\ SnapshotValue(1, "total_liabilities") = <<>>
    /\ Screening.ncav = <<>>
    /\ Screening.alert_flags = <<"NCAV_CALC_FAILED">>
    /\ BothYears("operating_cash_flow")
    /\ SnapshotValue(1, "operating_cash_flow") = SnapshotValue(1 + 1, "operating_cash_flow")
    /\ Screening.is_cf_increasing = <<0>>
    /\ Screening.is_inventory_warning = <<1>>
    /\ Screening.is_receivable_warning = <<0>>

(***************************************************************************)
(* Claims about _rate_limit (SpecRate).  A release is the moment line 38   *)
(* writes _LAST_REQ_AT, the last thing a caller does while it holds the    *)
(* lock; its time is the value written.                                    *)
(***************************************************************************)
RateServing == mode = "rate"

\* the thread is between the lines 34 and 38, inside the with block
InsideLock(t) == output.line[t] \in {34, 37, 38}

OneAtATime == \A t, u \in Threads : InsideLock(t) /\ InsideLock(u) => t = u

SpacedReleases ==
    \A i \in 1..(Len(output.releases) - 1) :
       output.releases[i + 1].at - output.releases[i].at >= MIN_INTERVAL_SEC

\* C27: whatever the threads of the pool call and however they interleave,
\* at most one caller is inside the with block of _rate_limit at a time and
\* any two consecutive releases are at least MIN_INTERVAL_SEC apart.
C27_RateLimit == RateServing => OneAtATime /\ SpacedReleases

\* a call of list_documents and a call of fetch_xbrl_instance were released
\* one after the other, exactly MIN_INTERVAL_SEC apart, the second after it
\* had slept inside the lock, while a third caller waits for the lock
C27_Witness ==
    /\ RateServing
    /\ \E i \in 1..(Len(output.releases) - 1) :
          /\ output.releases[i].op # output.releases[i + 1].op
          /\ output.releases[i + 1].slept
          /\ output.releases[i + 1].at = output.releases[i].at + MIN_INTERVAL_SEC
    /\ \E t \in Threads : output.line[t] = 33

=============================================================================
